---- MODULE Spec2Model ----
(***************************************************************************)
(* A model of the taifun processing pipeline:                              *)
(*   producer -> resolver pool -> Mark -> Recorder -> Reporter             *)
(* with the value channel, the count channel and the shared cancellation   *)
(* context.  Every goroutine is a small state machine whose steps are its  *)
(* channel operations; an unbuffered channel operation is one action that  *)
(* moves the sender and the receiver together.                             *)
(***************************************************************************)
EXTENDS Integers, Sequences, FiniteSets, TLC

\* ------------------------------------------------------------------ bounds

\* number of values the source holds (Range(1, NumValues) or NumValues lines)
NumValues == 2

\* largest number of resolver goroutines (opts.Threads ranges over 1..MaxThreads)
MaxThreads == 2

\* capacity of the value channel (opts.BufferSize)
BufferSize == 1

\* capacity of the count channel: cch := make(chan int, 1)
CountChanCap == 1

\* ------------------------------------------------------------- data model

\* opts.RequestTypes, the default of the --request-types flag
requestTypes == <<"A", "AAAA">>

\* the hostname template, as a sequence of tokens; "FUZZ" is the placeholder
template == <<"host-", "FUZZ", ".example.org", ".">>

\* the decimal digits
Digits == <<"0", "1", "2", "3", "4", "5", "6", "7", "8", "9">>

\* fmt.Sprintf("%d", i) for i >= 0: the text of i, a sequence of characters
RECURSIVE Sprintf(_)
Sprintf(i) ==
    IF i < 10 THEN <<Digits[i + 1]>>
    ELSE Sprintf(i \div 10) \o <<Digits[(i % 10) + 1]>>

\* the zone the name server serves (the environment): the hosts of the items
\* ending in an odd digit exist and have an IPv6 address, and the queries of
\* type A for them are lost, so that the exchange fails; the other hosts do
\* not exist
Zone(item, requestType) ==
    IF item # <<>> /\ item[Len(item)] \in {"1", "3", "5", "7", "9"}
    THEN IF requestType = "A" THEN "error" ELSE "found"
    ELSE "nxdomain"

\* the zero value of Result
NoResult == [Hide |-> FALSE, Item |-> <<>>, Hostname |-> <<>>, Requests |-> <<>>]

\* NewResponse
NewResponse(responseType, ttl, data) ==
    [Hide |-> FALSE, Type |-> responseType, Data |-> data, TTL |-> ttl]

\* strings.Replace(template, "FUZZ", item, -1): the text of item takes the
\* place of every placeholder
RECURSIVE Replace(_, _)
Replace(tmpl, item) ==
    IF tmpl = <<>> THEN <<>>
    ELSE (IF Head(tmpl) = "FUZZ" THEN item ELSE <<Head(tmpl)>>)
         \o Replace(Tail(tmpl), item)

\* cleanHostname as a bug would have it: the trailing dot stays
cleanHostnameKeepsDot(h) == h

\* cleanHostname removes a trailing dot if present
cleanHostname(h) ==
    IF h = <<>> THEN h
    ELSE IF h[Len(h)] = "." THEN SubSeq(h, 1, Len(h) - 1) ELSE h

\* c.Exchange: the reply of the name server for (name, type) under an outcome.
\* A reply is [Err, Rcode, Answer, Ns]; resource records are [Name, Type, Data, Ttl];
\* names and record data are sequences of tokens, a final "." being the root label.
Exchange(name, requestType, outcome) ==
    CASE outcome = "found" ->
           [Err |-> FALSE, Rcode |-> "NOERROR",
            Answer |-> IF requestType = "A"
                       THEN <<[Name |-> name, Type |-> "A", Data |-> <<"192.0.2.1">>, Ttl |-> 60]>>
                       ELSE IF requestType = "AAAA"
                       THEN <<[Name |-> name, Type |-> "AAAA", Data |-> <<"2001:db8::1">>, Ttl |-> 60]>>
                       ELSE <<>>,
            Ns |-> <<>>]
      [] outcome = "other" ->
           [Err |-> FALSE, Rcode |-> "NOERROR",
            Answer |-> <<[Name |-> name, Type |-> "A", Data |-> <<"198.51.100.1">>, Ttl |-> 60]>>,
            Ns |-> <<>>]
      [] outcome = "multi" ->
           [Err |-> FALSE, Rcode |-> "NOERROR",
            Answer |-> <<[Name |-> name, Type |-> "A", Data |-> <<"192.0.2.1">>, Ttl |-> 60],
                         [Name |-> name, Type |-> "A", Data |-> <<"198.51.100.1">>, Ttl |-> 60]>>,
            Ns |-> <<>>]
      [] outcome = "cname" ->
           [Err |-> FALSE, Rcode |-> "NOERROR",
            Answer |-> <<[Name |-> name, Type |-> "CNAME",
                          Data |-> <<"target", ".example.net", ".">>, Ttl |-> 60]>>,
            Ns |-> <<>>]
      [] outcome = "nxcname" ->
           [Err |-> FALSE, Rcode |-> "NXDOMAIN",
            Answer |-> <<[Name |-> name, Type |-> "CNAME",
                          Data |-> <<"target", ".example.net", ".">>, Ttl |-> 60]>>,
            Ns |-> <<>>]
      [] outcome = "nxdomain" ->
           [Err |-> FALSE, Rcode |-> "NXDOMAIN", Answer |-> <<>>, Ns |-> <<>>]
      [] outcome = "servfail" ->
           [Err |-> FALSE, Rcode |-> "SERVFAIL", Answer |-> <<>>, Ns |-> <<>>]
      [] outcome = "empty" ->
           [Err |-> FALSE, Rcode |-> "NOERROR", Answer |-> <<>>, Ns |-> <<>>]
      [] outcome = "delegation" ->
           [Err |-> FALSE, Rcode |-> "NOERROR", Answer |-> <<>>,
            Ns |-> <<[Name |-> name, Type |-> "NS", Data |-> <<"ns1", ".example.org", ".">>, Ttl |-> 60]>>]
      [] outcome = "delegated" ->
           [Err |-> FALSE, Rcode |-> "NOERROR", Answer |-> <<>>,
            Ns |-> <<[Name |-> name, Type |-> "NS", Data |-> <<"ns2", ".example.org", ".">>, Ttl |-> 60],
                     [Name |-> name, Type |-> "SOA", Data |-> <<"ns1", ".example.org", ".">>, Ttl |-> 60],
                     [Name |-> name, Type |-> "NS", Data |-> <<"ns1", ".example.org", ".">>, Ttl |-> 60],
                     [Name |-> <<"example.org", ".">>, Type |-> "NS",
                      Data |-> <<"ns3", ".example.org", ".">>, Ttl |-> 60]>>]
      [] OTHER ->
           [Err |-> TRUE, Rcode |-> "", Answer |-> <<>>, Ns |-> <<>>]

\* the loops of sendRequest over res.Answer and res.Ns: a Response for every
\* record of list whose owner is name and whose type is one of types, in
\* order; an address is kept as it is, a host name loses its trailing dot
RECURSIVE SelectRR(_, _, _)
SelectRR(list, name, types) ==
    IF list = <<>> THEN <<>>
    ELSE LET rr == Head(list)
             rest == SelectRR(Tail(list), name, types)
             recData == IF rr.Type \in {"A", "AAAA"} THEN rr.Data
                        ELSE cleanHostname(rr.Data)
         IN IF rr.Name = name /\ rr.Type \in types
            THEN <<NewResponse(rr.Type, rr.Ttl, recData)>> \o rest
            ELSE rest

\* sendRequest builds one Request from the reply of the name server
sendRequest(name, requestType, outcome) ==
    LET res == Exchange(name, requestType, outcome)
        empty == [Hide |-> FALSE, Type |-> requestType, Status |-> "",
                  Failure |-> FALSE, NotFound |-> FALSE, Error |-> FALSE,
                  Responses |-> <<>>, Nameserver |-> <<>>, SOA |-> <<>>]
    IN IF res.Err
       THEN [empty EXCEPT !.Error = TRUE]
       ELSE [empty EXCEPT
               !.Status = res.Rcode,
               !.Failure = (res.Rcode # "NOERROR"),
               !.NotFound = (res.Rcode = "NXDOMAIN"),
               !.Responses = SelectRR(res.Answer, name, {"A", "AAAA", "CNAME", "MX", "PTR"}),
               !.SOA = SelectRR(res.Ns, name, {"SOA"}),
               !.Nameserver = SelectRR(res.Ns, name, {"NS"})]

\* lookup as a bug would have it: the Result is built for the first item,
\* not for the item received
lookupStaleItem(item) ==
    LET name == Replace(template, Sprintf(1))
    IN [Hide |-> FALSE,
        Item |-> Sprintf(1),
        Hostname |-> cleanHostname(name),
        Requests |-> [i \in 1..Len(requestTypes) |->
                         sendRequest(name, requestTypes[i], Zone(Sprintf(1), requestTypes[i]))]]

\* lookup as a bug would have it: the first failed exchange ends the loop over
\* the request types
lookupStopsAtError(item) ==
    LET name == Replace(template, item)
        all == [i \in 1..Len(requestTypes) |->
                   sendRequest(name, requestTypes[i], Zone(item, requestTypes[i]))]
        failed == {i \in 1..Len(all) : all[i].Error}
        last == IF failed = {} THEN Len(all)
                ELSE CHOOSE i \in failed : \A j \in failed : i <= j
    IN [Hide |-> FALSE,
        Item |-> item,
        Hostname |-> cleanHostname(name),
        Requests |-> SubSeq(all, 1, last)]

\* lookup as a bug would have it: the requests are appended in the reverse of
\* the configured order
lookupReversed(item) ==
    LET name == Replace(template, item)
        n == Len(requestTypes)
    IN [Hide |-> FALSE,
        Item |-> item,
        Hostname |-> cleanHostname(name),
        Requests |-> [i \in 1..n |->
                         sendRequest(name, requestTypes[n + 1 - i],
                                     Zone(item, requestTypes[n + 1 - i]))]]

\* Resolver.lookup: one Result for one item, one Request per configured type
lookup(item) ==
    LET name == Replace(template, item)
    IN [Hide |-> FALSE,
        Item |-> item,
        Hostname |-> cleanHostname(name),
        Requests |-> [i \in 1..Len(requestTypes) |->
                         sendRequest(name, requestTypes[i],
                                     Zone(item, requestTypes[i]))]]

\* Request.Empty as a bug would have it: Failure is not looked at
RequestEmptyIgnoresFailure(r) ==
    IF Len(r.Responses) > 0 THEN FALSE
    ELSE TRUE

\* Request.Empty
RequestEmpty(r) ==
    IF r.Failure THEN FALSE
    ELSE IF Len(r.Responses) > 0 THEN FALSE
    ELSE TRUE

\* Result.Empty
ResultEmpty(r) == \A i \in 1..Len(r.Requests) : RequestEmpty(r.Requests[i])

\* Result.Delegation as a bug would have it: the check of Empty is missing
DelegationWithoutEmpty(r) ==
    \E i \in 1..Len(r.Requests) :
       Len(r.Requests[i].Nameserver) > 0 \/ Len(r.Requests[i].SOA) > 0

\* Result.Delegation
Delegation(r) ==
    IF ~ResultEmpty(r) THEN FALSE
    ELSE \E i \in 1..Len(r.Requests) :
            Len(r.Requests[i].Nameserver) > 0 \/ Len(r.Requests[i].SOA) > 0

\* the tokens the names of name servers are made of, in the order of their
\* bytes; two names of the model differ in their first token or not at all,
\* so that comparing token by token is comparing byte by byte
TokenOrder == <<".example.net", ".example.org", "ns1", "ns2", "ns3">>

\* a < b for two strings, as sort.Strings compares them
RECURSIVE StringLess(_, _)
StringLess(a, b) ==
    IF b = <<>> THEN FALSE
    ELSE IF a = <<>> THEN TRUE
    ELSE IF Head(a) = Head(b) THEN StringLess(Tail(a), Tail(b))
    ELSE LET rank(tok) == CHOOSE k \in 1..Len(TokenOrder) : TokenOrder[k] = tok
         IN rank(Head(a)) < rank(Head(b))

\* entry put at its place in an ascending list
RECURSIVE Insert(_, _)
Insert(sorted, entry) ==
    IF sorted = <<>> THEN <<entry>>
    ELSE IF StringLess(entry, Head(sorted)) THEN <<entry>> \o sorted
    ELSE <<Head(sorted)>> \o Insert(Tail(sorted), entry)

\* sort.Strings(list): the entries of list in ascending order
RECURSIVE SortStrings(_)
SortStrings(list) ==
    IF list = <<>> THEN <<>>
    ELSE Insert(SortStrings(SubSeq(list, 1, Len(list) - 1)), list[Len(list)])

\* the loop of unique: an entry seen before is skipped, a new one is appended
RECURSIVE Cleaned(_, _)
Cleaned(list, known) ==
    IF list = <<>> THEN <<>>
    ELSE IF Head(list) \in known THEN Cleaned(Tail(list), known)
    ELSE <<Head(list)>> \o Cleaned(Tail(list), known \cup {Head(list)})

\* unique as a bug would have it: the cleaned list is not sorted
uniqueUnsorted(list) == Cleaned(list, {})

\* unique as a bug would have it: the list is sorted, its duplicates stay
uniqueKeepsDuplicates(list) == SortStrings(list)

\* unique
unique(list) == SortStrings(Cleaned(list, {}))

\* the loop of Nameservers over the requests, from request i on: the Data of
\* the NS records of a request, then the Data of its SOA records
RECURSIVE Servers(_, _)
Servers(r, i) ==
    IF i > Len(r.Requests) THEN <<>>
    ELSE [j \in 1..Len(r.Requests[i].Nameserver) |-> r.Requests[i].Nameserver[j].Data]
         \o [j \in 1..Len(r.Requests[i].SOA) |-> r.Requests[i].SOA[j].Data]
         \o Servers(r, i + 1)

\* Result.Nameservers
Nameservers(r) == unique(Servers(r, 1))

\* ---------------------------------------------------------------- filters

\* the addresses the model knows; net.ParseIP succeeds exactly on these
IPs == {<<"192.0.2.1">>, <<"198.51.100.1">>, <<"2001:db8::1">>}

\* a filter is [kind, arg]: arg is the set of addresses lying in one of the
\* subnets, or the set of names one of the patterns matches
FilterNotFound == [kind |-> "NotFound", arg |-> {}]
FilterEmptyResults == [kind |-> "Empty", arg |-> {}]
FilterDelegations == [kind |-> "Delegation", arg |-> {}]
FilterInSubnet(subnets) == [kind |-> "InSubnet", arg |-> subnets]
FilterNotInSubnet(subnets) == [kind |-> "NotInSubnet", arg |-> subnets]
FilterRejectCNAMEs(patterns) == [kind |-> "RejectCNAMEs", arg |-> patterns]

\* ResultFilter.Reject
ResultReject(f, r) ==
    CASE f.kind = "Empty" -> ResultEmpty(r)
      [] f.kind = "Delegation" -> Delegation(r)
      [] OTHER -> FALSE

\* RequestFilter.Reject
RequestReject(f, r) ==
    CASE f.kind = "NotFound" -> r.NotFound
      [] OTHER -> FALSE

\* ResponseFilter.Reject
ResponseReject(f, res) ==
    CASE f.kind = "InSubnet" ->
           IF res.Type # "A" /\ res.Type # "AAAA" THEN FALSE
           ELSE IF res.Data \notin IPs THEN FALSE
           ELSE res.Data \in f.arg
      [] f.kind = "NotInSubnet" ->
           IF res.Type # "A" /\ res.Type # "AAAA" THEN FALSE
           ELSE IF res.Data \notin IPs THEN FALSE
           ELSE res.Data \notin f.arg
      [] f.kind = "RejectCNAMEs" ->
           IF res.Type # "CNAME" THEN FALSE ELSE res.Data \in f.arg
      [] f.kind = "RejectPTR" ->
           IF res.Type # "PTR" THEN FALSE ELSE res.Data \in f.arg
      [] OTHER -> FALSE

\* the options the filters are built from (the flags' defaults)
DefaultOpts ==
    [ShowNotFound |-> FALSE, HideEmpty |-> FALSE, HideDelegations |-> FALSE,
     hideNetworks |-> {}, showNetworks |-> {}, hideCNAMEs |-> {}]

\* setupResultFilters as a bug would have it: the not-found filter is
\* installed when --show-not-found is given, not when it is absent
setupResultFiltersInverted(opts) ==
    [Request |-> IF opts.ShowNotFound THEN <<FilterNotFound>> ELSE <<>>,
     Result |-> (IF opts.HideEmpty THEN <<FilterEmptyResults>> ELSE <<>>)
                \o (IF opts.HideDelegations THEN <<FilterDelegations>> ELSE <<>>),
     Response |-> (IF opts.hideNetworks # {} THEN <<FilterInSubnet(opts.hideNetworks)>> ELSE <<>>)
                  \o (IF opts.showNetworks # {} THEN <<FilterNotInSubnet(opts.showNetworks)>> ELSE <<>>)
                  \o (IF opts.hideCNAMEs # {} THEN <<FilterRejectCNAMEs(opts.hideCNAMEs)>> ELSE <<>>)]

\* setupResultFilters
setupResultFilters(opts) ==
    [Request |-> IF ~opts.ShowNotFound THEN <<FilterNotFound>> ELSE <<>>,
     Result |-> (IF opts.HideEmpty THEN <<FilterEmptyResults>> ELSE <<>>)
                \o (IF opts.HideDelegations THEN <<FilterDelegations>> ELSE <<>>),
     Response |-> (IF opts.hideNetworks # {} THEN <<FilterInSubnet(opts.hideNetworks)>> ELSE <<>>)
                  \o (IF opts.showNetworks # {} THEN <<FilterNotInSubnet(opts.showNetworks)>> ELSE <<>>)
                  \o (IF opts.hideCNAMEs # {} THEN <<FilterRejectCNAMEs(opts.hideCNAMEs)>> ELSE <<>>)]

\* the responses of list no response filter rejects, in order
RECURSIVE KeepResponses(_, _)
KeepResponses(filters, list) ==
    IF list = <<>> THEN <<>>
    ELSE IF \E k \in 1..Len(filters.Response) :
                ResponseReject(filters.Response[k], Head(list))
         THEN KeepResponses(filters, Tail(list))
         ELSE <<Head(list)>> \o KeepResponses(filters, Tail(list))

\* MarkResponses as a bug would have it: a rejected response is removed from
\* the request instead of being marked
MarkResponsesDiscard(filters, request) ==
    [request EXCEPT !.Responses = KeepResponses(filters, request.Responses)]

\* MarkResponses as a bug would have it: a rejected response has its mark
\* flipped instead of set
MarkResponsesToggle(filters, request) ==
    [request EXCEPT !.Responses =
        [j \in 1..Len(request.Responses) |->
            IF \E k \in 1..Len(filters.Response) :
                   ResponseReject(filters.Response[k], request.Responses[j])
            THEN [request.Responses[j] EXCEPT !.Hide = ~@]
            ELSE request.Responses[j]]]

\* the inner loops of runFilters over the responses of one request: a response
\* is marked when some response filter rejects it
MarkResponses(filters, request) ==
    [request EXCEPT !.Responses =
        [j \in 1..Len(request.Responses) |->
            IF \E k \in 1..Len(filters.Response) :
                   ResponseReject(filters.Response[k], request.Responses[j])
            THEN [request.Responses[j] EXCEPT !.Hide = TRUE]
            ELSE request.Responses[j]]]

\* the loop of runFilters over the request filters, from filter k on, for one
\* request: the first rejecting filter hides the request and ends the loop; a
\* filter that does not reject is followed by the loop over the responses
RECURSIVE RunRequestFilters(_, _, _)
RunRequestFilters(filters, request, k) ==
    IF k > Len(filters.Request) THEN [req |-> request, hidden |-> FALSE]
    ELSE IF RequestReject(filters.Request[k], request)
         THEN [req |-> [request EXCEPT !.Hide = TRUE], hidden |-> TRUE]
         ELSE RunRequestFilters(filters, MarkResponses(filters, request), k + 1)

\* runFilters as a bug would have it: one hidden request is enough to hide
\* the whole result
runFiltersAnyHidden(filters, result) ==
    IF \E k \in 1..Len(filters.Result) : ResultReject(filters.Result[k], result)
    THEN [result EXCEPT !.Hide = TRUE]
    ELSE LET done == [i \in 1..Len(result.Requests) |->
                         RunRequestFilters(filters, result.Requests[i], 1)]
             anyRequestHidden == \E i \in 1..Len(result.Requests) : done[i].hidden
         IN [result EXCEPT
               !.Requests = [i \in 1..Len(result.Requests) |-> done[i].req],
               !.Hide = IF anyRequestHidden THEN TRUE ELSE @]

\* runFilters as a bug would have it: the result filters are not consulted
runFiltersNoResultTier(filters, result) ==
    LET done == [i \in 1..Len(result.Requests) |->
                    RunRequestFilters(filters, result.Requests[i], 1)]
        allRequestsHidden == \A i \in 1..Len(result.Requests) : done[i].hidden
    IN [result EXCEPT
          !.Requests = [i \in 1..Len(result.Requests) |-> done[i].req],
          !.Hide = IF allRequestsHidden THEN TRUE ELSE @]

\* runFilters as a bug would have it: a result rejected by a result filter
\* has its requests hidden as well
runFiltersHidesRequests(filters, result) ==
    IF \E k \in 1..Len(filters.Result) : ResultReject(filters.Result[k], result)
    THEN [result EXCEPT
            !.Hide = TRUE,
            !.Requests = [i \in 1..Len(result.Requests) |->
                             [result.Requests[i] EXCEPT !.Hide = TRUE]]]
    ELSE LET done == [i \in 1..Len(result.Requests) |->
                         RunRequestFilters(filters, result.Requests[i], 1)]
             allRequestsHidden == \A i \in 1..Len(result.Requests) : done[i].hidden
         IN [result EXCEPT
               !.Requests = [i \in 1..Len(result.Requests) |-> done[i].req],
               !.Hide = IF allRequestsHidden THEN TRUE ELSE @]

\* runFilters as a bug would have it: the collapse rule is missing
runFiltersNoCollapse(filters, result) ==
    IF \E k \in 1..Len(filters.Result) : ResultReject(filters.Result[k], result)
    THEN [result EXCEPT !.Hide = TRUE]
    ELSE [result EXCEPT
            !.Requests = [i \in 1..Len(result.Requests) |->
                             RunRequestFilters(filters, result.Requests[i], 1).req]]

\* runFilters
runFilters(filters, result) ==
    IF \E k \in 1..Len(filters.Result) : ResultReject(filters.Result[k], result)
    THEN [result EXCEPT !.Hide = TRUE]
    ELSE LET done == [i \in 1..Len(result.Requests) |->
                         RunRequestFilters(filters, result.Requests[i], 1)]
             allRequestsHidden == \A i \in 1..Len(result.Requests) : done[i].hidden
         IN [result EXCEPT
               !.Requests = [i \in 1..Len(result.Requests) |-> done[i].req],
               !.Hide = IF allRequestsHidden THEN TRUE ELSE @]

\* --------------------------------------------------------------- pipeline

VARIABLES
    cancelled,     \* ctx.Done() is closed
    mode,          \* the producer configured: "range" or "source"
    threads,       \* opts.Threads
    prodPc,        \* the producer: "count", "values", "close", "done"
    prodNext,      \* the number of the next value the producer emits
    vch,           \* the value channel's buffer
    vchClosed,     \* the value channel is closed
    cch,           \* the count channel's buffer
    wpc,           \* each resolver: "none", "recv", "send", "done"
    wres,          \* the Result a resolver holds for sending
    outClosed,     \* the resolvers' output channel is closed
    markPc,        \* Mark's goroutine: "recv", "send", "done"
    markRes,       \* the Result Mark holds for sending
    chClosed,      \* Mark's output channel is closed
    recPc,         \* Recorder.Run: "select", "dump", "dumpWrite", "forward",
                   \* "final", "finalWrite", "done"
    recRes,        \* res of Recorder.Run
    data,          \* data of Recorder.Run
    inCountNil,    \* inCount of Recorder.Run is nil
    countChNil,    \* countCh of Recorder.Run is nil
    recOutClosed,  \* the Recorder's output channel is closed
    recErr,        \* Recorder.Run returned an error
    file,          \* the checkpoint file: [state, data]
    repPc,         \* Reporter.Display: "recv", "poll", "done"
    repRes,        \* result of Reporter.Display
    stats,         \* stats of Reporter.Display
    \* history, read by the properties only
    consumed,      \* how often each value was received by a resolver
    emitted,       \* how often a Result for each value was sent by a resolver
    received,      \* the Results the Recorder received, in order
    forwarded,     \* the Results the Recorder sent, in order
    countEmitted,  \* the counts the producer sent
    countIn,       \* the counts the Recorder received
    countOut,      \* the counts received from the Recorder's outbound channel
    cancelAtExit,  \* ctx was cancelled when the Recorder left its loop
    written        \* the number of completed checkpoint writes

\* the state of the two specifications of the pure parts of the program
VARIABLES
    cls,           \* classification: [opts, orig, result, runs]
    vol            \* value filters: [opts, N, fed, skipped, passed, out, count, countAt]

vars == <<cancelled, mode, threads, prodPc, prodNext, vch, vchClosed, cch,
          wpc, wres, outClosed, markPc, markRes, chClosed,
          recPc, recRes, data, inCountNil, countChNil, recOutClosed, recErr, file,
          repPc, repRes, stats,
          consumed, emitted, received, forwarded, countEmitted, countIn, countOut,
          cancelAtExit, written>>

prodVars == <<prodPc, prodNext, vch, vchClosed, cch, countEmitted>>
poolVars == <<wpc, wres, outClosed, consumed, emitted>>
markVars == <<markPc, markRes, chClosed>>
recVars == <<recPc, recRes, data, inCountNil, countChNil, recOutClosed, recErr, file,
             received, forwarded, countIn, cancelAtExit, written>>
repVars == <<repPc, repRes, stats, countOut>>
cfgVars == <<mode, threads>>

\* the values of the source: the formatted integers 1..NumValues, or the lines
\* of a file holding the same texts
Values == {Sprintf(i) : i \in 1..NumValues}
Workers == 1..threads

\* the Data a new Recorder holds (NewRecorder, and the start of Run)
NewData ==
    [TotalRequests |-> 0, SentRequests |-> 0, HiddenResults |-> 0,
     ShownResults |-> 0, Cancelled |-> FALSE, Results |-> <<>>]

\* the Stats Display starts with: the counters are zero, the maps are empty
NewStats ==
    [Results |-> 0, ShownResults |-> 0, Count |-> 0, Errors |-> 0,
     Empty |-> 0, Delegated |-> 0,
     A |-> {}, AAAA |-> {}, MX |-> {}, CNAME |-> {}, PTR |-> {}]

\* the filters run() hands to Mark
responseFilters == setupResultFilters(DefaultOpts)

\* cls and vol while the pipeline runs: nothing is being classified on its
\* own, no value filter is being fed
NoCase == [opts |-> DefaultOpts, orig |-> NoResult, result |-> NoResult, runs |-> 0]
NoVolume == [opts |-> [Skip |-> 0, Limit |-> 0], N |-> 0, fed |-> 0,
             skipped |-> 0, passed |-> 0, out |-> <<>>, count |-> <<>>, countAt |-> 0]

\* the pipeline as run() has set it up
PipelineInit ==
    /\ cancelled = FALSE
    /\ mode \in {"range", "source"}
    /\ threads \in 1..MaxThreads
    /\ prodPc = IF mode = "range" THEN "count" ELSE "values"
    /\ prodNext = 1
    /\ vch = <<>>
    /\ vchClosed = FALSE
    /\ cch = <<>>
    /\ wpc = [w \in 1..MaxThreads |-> IF w <= threads THEN "recv" ELSE "none"]
    /\ wres = [w \in 1..MaxThreads |-> NoResult]
    /\ outClosed = FALSE
    /\ markPc = "recv"
    /\ markRes = NoResult
    /\ chClosed = FALSE
    /\ recPc = "select"
    /\ recRes = NoResult
    /\ data = NewData
    /\ inCountNil = FALSE
    /\ countChNil = TRUE
    /\ recOutClosed = FALSE
    /\ recErr = FALSE
    /\ file = [state |-> "absent", data |-> NewData]
    /\ repPc = "recv"
    /\ repRes = NoResult
    /\ stats = NewStats
    /\ consumed = [v \in Values |-> 0]
    /\ emitted = [v \in Values |-> 0]
    /\ received = <<>>
    /\ forwarded = <<>>
    /\ countEmitted = <<>>
    /\ countIn = <<>>
    /\ countOut = <<>>
    /\ cancelAtExit = FALSE
    /\ written = 0

Init ==
    /\ PipelineInit
    /\ cls = NoCase
    /\ vol = NoVolume

\* ---------------------------------------------------------------- context

\* the shutdown signal cancels the context while run() has not returned
Cancel ==
    /\ ~cancelled
    /\ repPc # "done"
    /\ cancelled' = TRUE
    /\ UNCHANGED <<cfgVars, prodVars, poolVars, markVars, recVars, repVars>>

\* --------------------------------------------------------------- producer

\* the total the producer reports: last-first+1 for a range, the number of
\* lines read for a source
ProducerTotal == IF mode = "range" THEN NumValues ELSE prodNext - 1

\* the producer sends the count on the count channel
ProducerCount ==
    /\ prodPc = "count"
    /\ Len(cch) < CountChanCap
    /\ cch' = Append(cch, ProducerTotal)
    /\ countEmitted' = Append(countEmitted, ProducerTotal)
    /\ prodPc' = IF mode = "range" THEN "values" ELSE "close"
    /\ UNCHANGED <<cancelled, cfgVars, prodNext, vch, vchClosed,
                   poolVars, markVars, recVars, repVars>>

\* where the producer goes when it emits no further value
ProducerAfterValues == IF mode = "range" THEN "close" ELSE "count"

\* a pending emission is accepted by the value channel
ProducerValue ==
    /\ prodPc = "values"
    /\ prodNext <= NumValues
    /\ Len(vch) < BufferSize
    /\ vch' = Append(vch, Sprintf(prodNext))
    /\ prodNext' = prodNext + 1
    /\ UNCHANGED <<cancelled, cfgVars, prodPc, vchClosed, cch, countEmitted,
                   poolVars, markVars, recVars, repVars>>

\* the source is exhausted, or a pending emission observes the cancellation
ProducerStop ==
    /\ prodPc = "values"
    /\ prodNext > NumValues \/ cancelled
    /\ prodPc' = ProducerAfterValues
    /\ UNCHANGED <<cancelled, cfgVars, prodNext, vch, vchClosed, cch, countEmitted,
                   poolVars, markVars, recVars, repVars>>

\* the producer closes the value channel
ProducerClose ==
    /\ prodPc = "close"
    /\ vchClosed' = TRUE
    /\ prodPc' = "done"
    /\ UNCHANGED <<cancelled, cfgVars, prodNext, vch, cch, countEmitted,
                   poolVars, markVars, recVars, repVars>>

\* ---------------------------------------------------------- resolver pool

\* for item := range r.input: a resolver receives the next value and looks it up
ResolverRecv(w) ==
    /\ wpc[w] = "recv"
    /\ vch # <<>>
    /\ wres' = [wres EXCEPT ![w] = lookup(Head(vch))]
    /\ vch' = Tail(vch)
    /\ wpc' = [wpc EXCEPT ![w] = "send"]
    /\ consumed' = [consumed EXCEPT ![Head(vch)] = @ + 1]
    /\ UNCHANGED <<cancelled, cfgVars, prodPc, prodNext, vchClosed, cch, countEmitted,
                   outClosed, emitted, markVars, recVars, repVars>>

\* ResolverExit as a bug would have it: the loop also ends when the context is
\* cancelled while the resolver waits for a value
ResolverExitOnCancel(w) ==
    /\ wpc[w] = "recv"
    /\ (vch = <<>> /\ vchClosed) \/ cancelled
    /\ wpc' = [wpc EXCEPT ![w] = "done"]
    /\ UNCHANGED <<cancelled, cfgVars, prodVars, wres, outClosed, consumed, emitted,
                   markVars, recVars, repVars>>

\* the range loop ends: the input channel is closed and drained
ResolverExit(w) ==
    /\ wpc[w] = "recv"
    /\ vch = <<>>
    /\ vchClosed
    /\ wpc' = [wpc EXCEPT ![w] = "done"]
    /\ UNCHANGED <<cancelled, cfgVars, prodVars, wres, outClosed, consumed, emitted,
                   markVars, recVars, repVars>>

\* case r.output <- res: Mark's range loop receives the Result and runs the
\* filters.  A send on a closed channel would panic instead of being received.
ResolverSend(w) ==
    /\ wpc[w] = "send"
    /\ ~outClosed
    /\ markPc = "recv"
    /\ markRes' = runFilters(responseFilters, wres[w])
    /\ markPc' = "send"
    /\ wpc' = [wpc EXCEPT ![w] = "recv"]
    /\ wres' = [wres EXCEPT ![w] = NoResult]
    /\ emitted' = [emitted EXCEPT ![wres[w].Item] = @ + 1]
    /\ UNCHANGED <<cancelled, cfgVars, prodVars, outClosed, consumed, chClosed,
                   recVars, repVars>>

\* case <-ctx.Done(): the resolver returns with its Result unsent
ResolverCancel(w) ==
    /\ wpc[w] = "send"
    /\ cancelled
    /\ wpc' = [wpc EXCEPT ![w] = "done"]
    /\ wres' = [wres EXCEPT ![w] = NoResult]
    /\ UNCHANGED <<cancelled, cfgVars, prodVars, outClosed, consumed, emitted,
                   markVars, recVars, repVars>>

\* wg.Wait as a bug would have it: it returns as soon as one resolver is done
WgWaitAny == \E w \in Workers : wpc[w] = "done"

\* wg.Wait() returns: every resolver started has called wg.Done()
WgWait == \A w \in Workers : wpc[w] = "done"

\* the goroutine of startResolvers that closes the output channel
CloseOut ==
    /\ ~outClosed
    /\ WgWait
    /\ outClosed' = TRUE
    /\ UNCHANGED <<cancelled, cfgVars, prodVars, wpc, wres, consumed, emitted,
                   markVars, recVars, repVars>>

\* ------------------------------------------------------------------- Mark

\* Mark's range loop ends: its input is closed; the deferred close(ch) runs
MarkExit ==
    /\ markPc = "recv"
    /\ outClosed
    /\ markPc' = "done"
    /\ chClosed' = TRUE
    /\ UNCHANGED <<cancelled, cfgVars, prodVars, poolVars, markRes, recVars, repVars>>

\* --------------------------------------------------------------- Recorder

\* NewRecordedResponse: what the checkpoint keeps of the reply to one request
NewRecordedResponse(request) ==
    [Status |-> request.Status,
     Addresses |-> [j \in 1..Len(request.Responses) |-> request.Responses[j].Data],
     Error |-> request.Error]

\* the request types NewResult looks at
RecordedTypes == {"A", "AAAA"}

\* the reply to the request of type t (r.A, r.AAAA), t being a type requested
RequestOf(r, t) ==
    r.Requests[CHOOSE i \in 1..Len(r.Requests) : r.Requests[i].Type = t]

\* NewResult: the projection of a Result kept in the checkpoint; Responses
\* has an entry for A and for AAAA when the reply to that request is not empty
NewResult(r) ==
    [Item |-> r.Item,
     Hostname |-> r.Hostname,
     Responses |->
        [t \in {u \in RecordedTypes :
                  /\ \E i \in 1..Len(r.Requests) : r.Requests[i].Type = u
                  /\ ~RequestEmpty(RequestOf(r, u))}
           |-> NewRecordedResponse(RequestOf(r, t))]]

\* RecordResult as a bug would have it: a hidden Result is counted as sent
\* but not as hidden
RecordResultForgetsHidden(d, res) ==
    LET sent == [d EXCEPT !.SentRequests = @ + 1]
    IN IF ~res.Hide
       THEN [sent EXCEPT !.ShownResults = @ + 1,
                         !.Results = Append(@, NewResult(res))]
       ELSE sent

\* the statistics Run records for a received Result
RecordResult(d, res) ==
    LET sent == [d EXCEPT !.SentRequests = @ + 1]
    IN IF ~res.Hide
       THEN [sent EXCEPT !.ShownResults = @ + 1,
                         !.Results = Append(@, NewResult(res))]
       ELSE [sent EXCEPT !.HiddenResults = @ + 1]

\* RecRecvResult as a bug would have it: with the count cached the Recorder
\* insists on handing it over before it receives the next Result
RecRecvResultCountFirst ==
    /\ recPc = "select"
    /\ countChNil
    /\ markPc = "send"
    /\ recRes' = markRes
    /\ markPc' = "recv"
    /\ markRes' = NoResult
    /\ data' = RecordResult(data, markRes)
    /\ received' = Append(received, markRes)
    /\ \E elapsed \in BOOLEAN : recPc' = IF elapsed THEN "dump" ELSE "forward"
    /\ UNCHANGED <<cancelled, cfgVars, prodVars, poolVars, chClosed,
                   inCountNil, countChNil, recOutClosed, recErr, file,
                   forwarded, countIn, cancelAtExit, written, repVars>>

\* RecRecvResult as a bug would have it: the Result is received but the
\* statistics are not updated
RecRecvResultUncounted ==
    /\ recPc = "select"
    /\ markPc = "send"
    /\ recRes' = markRes
    /\ markPc' = "recv"
    /\ markRes' = NoResult
    /\ received' = Append(received, markRes)
    /\ \E elapsed \in BOOLEAN : recPc' = IF elapsed THEN "dump" ELSE "forward"
    /\ UNCHANGED <<cancelled, cfgVars, prodVars, poolVars, chClosed, data,
                   inCountNil, countChNil, recOutClosed, recErr, file,
                   forwarded, countIn, cancelAtExit, written, repVars>>

\* case res, ok = <-in with ok: Mark's send is received, the statistics are
\* updated, and time.Since(lastStatus) > statusInterval holds or not
RecRecvResult ==
    /\ recPc = "select"
    /\ markPc = "send"
    /\ recRes' = markRes
    /\ markPc' = "recv"
    /\ markRes' = NoResult
    /\ data' = RecordResult(data, markRes)
    /\ received' = Append(received, markRes)
    /\ \E elapsed \in BOOLEAN : recPc' = IF elapsed THEN "dump" ELSE "forward"
    /\ UNCHANGED <<cancelled, cfgVars, prodVars, poolVars, chClosed,
                   inCountNil, countChNil, recOutClosed, recErr, file,
                   forwarded, countIn, cancelAtExit, written, repVars>>

\* the Data of the responses of type t of all requests of result: the keys
\* the loops of Display over result.Requests and request.Responses put into
\* the map of type t; neither loop looks at Hide
ResponseData(result, t) ==
    UNION {{result.Requests[i].Responses[j].Data :
               j \in {k \in 1..Len(result.Requests[i].Responses) :
                         result.Requests[i].Responses[k].Type = t}} :
           i \in 1..Len(result.Requests)}

\* ReporterProcess as a bug would have it: a hidden Result is counted as
\* shown as well
ReporterProcessShowsHidden(st, result) ==
    [st EXCEPT !.Results = @ + 1,
               !.Delegated = IF Delegation(result) THEN @ + 1 ELSE @,
               !.Empty = IF ~Delegation(result) /\ ResultEmpty(result) THEN @ + 1 ELSE @,
               !.Errors = @ + Cardinality({i \in 1..Len(result.Requests) :
                                              result.Requests[i].Error}),
               !.A = @ \cup ResponseData(result, "A"),
               !.AAAA = @ \cup ResponseData(result, "AAAA"),
               !.MX = @ \cup ResponseData(result, "MX"),
               !.CNAME = @ \cup ResponseData(result, "CNAME"),
               !.PTR = @ \cup ResponseData(result, "PTR"),
               !.ShownResults = @ + 1]

\* what Display does with a Result after polling the count channel
ReporterProcess(st, result) ==
    [st EXCEPT !.Results = @ + 1,
               !.Delegated = IF Delegation(result) THEN @ + 1 ELSE @,
               !.Empty = IF ~Delegation(result) /\ ResultEmpty(result) THEN @ + 1 ELSE @,
               !.Errors = @ + Cardinality({i \in 1..Len(result.Requests) :
                                              result.Requests[i].Error}),
               !.A = @ \cup ResponseData(result, "A"),
               !.AAAA = @ \cup ResponseData(result, "AAAA"),
               !.MX = @ \cup ResponseData(result, "MX"),
               !.CNAME = @ \cup ResponseData(result, "CNAME"),
               !.PTR = @ \cup ResponseData(result, "PTR"),
               !.ShownResults = IF ~result.Hide THEN @ + 1 ELSE @]

\* case res, ok = <-in with !ok: break loop
RecInClosed ==
    /\ recPc = "select"
    /\ chClosed
    /\ recPc' = "final"
    /\ cancelAtExit' = cancelled
    /\ UNCHANGED <<cancelled, cfgVars, prodVars, poolVars, markVars,
                   recRes, data, inCountNil, countChNil, recOutClosed, recErr, file,
                   received, forwarded, countIn, written, repVars>>

\* case <-ctx.Done() of the first select: data.Cancelled = true; break loop
RecCancel ==
    /\ recPc = "select"
    /\ cancelled
    /\ data' = [data EXCEPT !.Cancelled = TRUE]
    /\ recPc' = "final"
    /\ cancelAtExit' = TRUE
    /\ UNCHANGED <<cancelled, cfgVars, prodVars, poolVars, markVars,
                   recRes, inCountNil, countChNil, recOutClosed, recErr, file,
                   received, forwarded, countIn, written, repVars>>

\* RecRecvCount as a bug would have it: inCount is not set to nil
RecRecvCountKeepsReceiving ==
    /\ recPc = "select"
    /\ ~inCountNil
    /\ cch # <<>>
    /\ data' = [data EXCEPT !.TotalRequests = Head(cch)]
    /\ cch' = Tail(cch)
    /\ inCountNil' = FALSE
    /\ countChNil' = FALSE
    /\ countIn' = Append(countIn, Head(cch))
    /\ UNCHANGED <<cancelled, cfgVars, prodPc, prodNext, vch, vchClosed, countEmitted,
                   poolVars, markVars, recPc, recRes, recOutClosed, recErr, file,
                   received, forwarded, cancelAtExit, written, repVars>>

\* case total := <-inCount
RecRecvCount ==
    /\ recPc = "select"
    /\ ~inCountNil
    /\ cch # <<>>
    /\ data' = [data EXCEPT !.TotalRequests = Head(cch)]
    /\ cch' = Tail(cch)
    /\ inCountNil' = TRUE
    /\ countChNil' = FALSE
    /\ countIn' = Append(countIn, Head(cch))
    /\ UNCHANGED <<cancelled, cfgVars, prodPc, prodNext, vch, vchClosed, countEmitted,
                   poolVars, markVars, recPc, recRes, recOutClosed, recErr, file,
                   received, forwarded, cancelAtExit, written, repVars>>

\* RecSendCount as a bug would have it: countCh is not set to nil again
RecSendCountKeepsOffering ==
    /\ recPc = "select"
    /\ ~countChNil
    /\ repPc = "poll"
    /\ countChNil' = FALSE
    /\ stats' = ReporterProcess([stats EXCEPT !.Count = data.TotalRequests], repRes)
    /\ countOut' = Append(countOut, data.TotalRequests)
    /\ repPc' = "recv"
    /\ repRes' = NoResult
    /\ UNCHANGED <<cancelled, cfgVars, prodVars, poolVars, markVars,
                   recPc, recRes, data, inCountNil, recOutClosed, recErr, file,
                   received, forwarded, countIn, cancelAtExit, written>>

\* RecSendCount as a bug would have it: the number of Results counted so far
\* is sent, not the cached count
RecSendCountSentRequests ==
    /\ recPc = "select"
    /\ ~countChNil
    /\ repPc = "poll"
    /\ countChNil' = TRUE
    /\ stats' = ReporterProcess([stats EXCEPT !.Count = data.SentRequests], repRes)
    /\ countOut' = Append(countOut, data.SentRequests)
    /\ repPc' = "recv"
    /\ repRes' = NoResult
    /\ UNCHANGED <<cancelled, cfgVars, prodVars, poolVars, markVars,
                   recPc, recRes, data, inCountNil, recOutClosed, recErr, file,
                   received, forwarded, countIn, cancelAtExit, written>>

\* case countCh <- data.TotalRequests, received by case c := <-countChannel
\* of the Reporter's select
RecSendCount ==
    /\ recPc = "select"
    /\ ~countChNil
    /\ repPc = "poll"
    /\ countChNil' = TRUE
    /\ stats' = ReporterProcess([stats EXCEPT !.Count = data.TotalRequests], repRes)
    /\ countOut' = Append(countOut, data.TotalRequests)
    /\ repPc' = "recv"
    /\ repRes' = NoResult
    /\ UNCHANGED <<cancelled, cfgVars, prodVars, poolVars, markVars,
                   recPc, recRes, data, inCountNil, recOutClosed, recErr, file,
                   received, forwarded, countIn, cancelAtExit, written>>

\* dump, first half: ioutil.WriteFile opens the checkpoint file itself with
\* O_WRONLY|O_CREATE|O_TRUNC, which leaves it empty
RecDumpOpen ==
    /\ recPc \in {"dump", "final"}
    /\ file' = [state |-> "empty", data |-> NewData]
    /\ recPc' = IF recPc = "dump" THEN "dumpWrite" ELSE "finalWrite"
    /\ UNCHANGED <<cancelled, cfgVars, prodVars, poolVars, markVars,
                   recRes, data, inCountNil, countChNil, recOutClosed, recErr,
                   received, forwarded, countIn, cancelAtExit, written, repVars>>

\* dump, second half: the encoded data is written; after the final dump Run
\* returns and the deferred close(out) runs
RecDumpWrite ==
    /\ recPc \in {"dumpWrite", "finalWrite"}
    /\ file' = [state |-> "complete", data |-> data]
    /\ written' = written + 1
    /\ recPc' = IF recPc = "dumpWrite" THEN "forward" ELSE "done"
    /\ recOutClosed' = (recPc = "finalWrite")
    /\ UNCHANGED <<cancelled, cfgVars, prodVars, poolVars, markVars,
                   recRes, data, inCountNil, countChNil, recErr,
                   received, forwarded, countIn, cancelAtExit, repVars>>

\* RecDumpFail as a bug would have it: the error of a periodic dump is
\* noted but Run goes on to forward the Result
RecDumpFailIgnored ==
    /\ recPc \in {"dump", "final"}
    /\ recErr' = TRUE
    /\ recPc' = IF recPc = "dump" THEN "forward" ELSE "done"
    /\ recOutClosed' = (recPc = "final")
    /\ UNCHANGED <<cancelled, cfgVars, prodVars, poolVars, markVars,
                   recRes, data, inCountNil, countChNil, file,
                   received, forwarded, countIn, cancelAtExit, written, repVars>>

\* RecDumpFail as a bug would have it: Run returns the error of dump with
\* its output channel left open (close(out) not deferred)
RecDumpFailLeavesOpen ==
    /\ recPc \in {"dump", "final"}
    /\ recErr' = TRUE
    /\ recPc' = "done"
    /\ UNCHANGED <<cancelled, cfgVars, prodVars, poolVars, markVars,
                   recRes, data, inCountNil, countChNil, recOutClosed, file,
                   received, forwarded, countIn, cancelAtExit, written, repVars>>

\* dump returns an error (the file cannot be opened): Run returns it, and the
\* deferred close(out) runs
RecDumpFail ==
    /\ recPc \in {"dump", "final"}
    /\ recErr' = TRUE
    /\ recPc' = "done"
    /\ recOutClosed' = TRUE
    /\ UNCHANGED <<cancelled, cfgVars, prodVars, poolVars, markVars,
                   recRes, data, inCountNil, countChNil, file,
                   received, forwarded, countIn, cancelAtExit, written, repVars>>

\* RecForward as a bug would have it: a send that does not wait (a select
\* with a default case) loses the Result when the Reporter is not receiving
RecForwardNonBlocking ==
    /\ recPc = "forward"
    /\ IF repPc = "recv"
       THEN /\ repRes' = recRes
            /\ repPc' = "poll"
            /\ forwarded' = Append(forwarded, recRes)
       ELSE UNCHANGED <<repRes, repPc, forwarded>>
    /\ recPc' = "select"
    /\ recRes' = NoResult
    /\ UNCHANGED <<cancelled, cfgVars, prodVars, poolVars, markVars,
                   data, inCountNil, countChNil, recOutClosed, recErr, file,
                   received, countIn, cancelAtExit, written, stats, countOut>>

\* case out <- res of the second select, received by the Reporter's range loop
RecForward ==
    /\ recPc = "forward"
    /\ repPc = "recv"
    /\ repRes' = recRes
    /\ repPc' = "poll"
    /\ forwarded' = Append(forwarded, recRes)
    /\ recPc' = "select"
    /\ recRes' = NoResult
    /\ UNCHANGED <<cancelled, cfgVars, prodVars, poolVars, markVars,
                   data, inCountNil, countChNil, recOutClosed, recErr, file,
                   received, countIn, cancelAtExit, written, stats, countOut>>

\* case <-ctx.Done() of the second select: data.Cancelled = true; break loop
RecForwardCancel ==
    /\ recPc = "forward"
    /\ cancelled
    /\ data' = [data EXCEPT !.Cancelled = TRUE]
    /\ recPc' = "final"
    /\ cancelAtExit' = TRUE
    /\ UNCHANGED <<cancelled, cfgVars, prodVars, poolVars, markVars,
                   recRes, inCountNil, countChNil, recOutClosed, recErr, file,
                   received, forwarded, countIn, written, repVars>>

\* --------------------------------------------------------------- Reporter

\* RepPollDefault as a bug would have it: the select has no default case
\* until a count was obtained, so the Reporter waits for the count
RepPollDefaultAfterCount ==
    /\ repPc = "poll"
    /\ countOut # <<>>
    /\ stats' = ReporterProcess(stats, repRes)
    /\ repPc' = "recv"
    /\ repRes' = NoResult
    /\ UNCHANGED <<cancelled, cfgVars, prodVars, poolVars, markVars, recVars, countOut>>

\* the default case of the Reporter's select: no count is taken
RepPollDefault ==
    /\ repPc = "poll"
    /\ stats' = ReporterProcess(stats, repRes)
    /\ repPc' = "recv"
    /\ repRes' = NoResult
    /\ UNCHANGED <<cancelled, cfgVars, prodVars, poolVars, markVars, recVars, countOut>>

\* the Reporter's range loop ends: its input channel is closed
RepExit ==
    /\ repPc = "recv"
    /\ recOutClosed
    /\ repPc' = "done"
    /\ UNCHANGED <<cancelled, cfgVars, prodVars, poolVars, markVars, recVars,
                   repRes, stats, countOut>>

\* the inner loop of printResult for one request, from response j on: lines
\* are the lines printed so far, lastCNAME the CNAME printed last; a hidden
\* response is skipped, a CNAME equal to lastCNAME ends the request
RECURSIVE PrintResponses(_, _, _, _, _)
PrintResponses(result, request, j, lastCNAME, lines) ==
    IF j > Len(request.Responses) THEN [lines |-> lines, lastCNAME |-> lastCNAME]
    ELSE LET response == request.Responses[j]
         IN IF response.Hide
            THEN PrintResponses(result, request, j + 1, lastCNAME, lines)
            ELSE IF response.Type = "CNAME" /\ response.Data = lastCNAME
            THEN [lines |-> lines, lastCNAME |-> lastCNAME]
            ELSE PrintResponses(result, request, j + 1,
                    IF response.Type = "CNAME" THEN response.Data ELSE lastCNAME,
                    Append(lines, [Hostname |-> result.Hostname,
                                   Request |-> request.Type,
                                   Response |-> response.Type,
                                   TTL |-> response.TTL,
                                   Data |-> response.Data]))

\* the outer loop of printResult, from request i on: a hidden request is skipped
RECURSIVE PrintRequests(_, _, _, _)
PrintRequests(result, i, lastCNAME, lines) ==
    IF i > Len(result.Requests) THEN lines
    ELSE IF result.Requests[i].Hide
         THEN PrintRequests(result, i + 1, lastCNAME, lines)
         ELSE LET done == PrintResponses(result, result.Requests[i], 1, lastCNAME, lines)
              IN PrintRequests(result, i + 1, done.lastCNAME, done.lines)

\* strings.Join(list, ", "), as a sequence of tokens
RECURSIVE Join(_)
Join(list) ==
    IF list = <<>> THEN <<>>
    ELSE IF Len(list) = 1 THEN Head(list)
    ELSE Head(list) \o <<", ">> \o Join(Tail(list))

\* printResult: the lines printed for a result
printResult(result) ==
    IF Delegation(result)
    THEN <<[Hostname |-> result.Hostname, Request |-> "", Response |-> "", TTL |-> 0,
            Data |-> <<"potential delegation, servers: ">> \o Join(Nameservers(result))]>>
    ELSE IF ResultEmpty(result)
    THEN <<[Hostname |-> result.Hostname, Request |-> "", Response |-> "", TTL |-> 0,
            Data |-> <<"empty response, potential suffix">>]>>
    ELSE PrintRequests(result, 1, <<>>, <<>>)

\* ---------------------------------------------------------- specification

\* a step of one of the pipeline's goroutines
PipelineStep ==
    \/ ProducerCount
    \/ ProducerValue
    \/ ProducerStop
    \/ ProducerClose
    \/ \E w \in Workers : ResolverRecv(w)
    \/ \E w \in Workers : ResolverExit(w)
    \/ \E w \in Workers : ResolverSend(w)
    \/ \E w \in Workers : ResolverCancel(w)
    \/ CloseOut
    \/ MarkExit
    \/ RecRecvResult
    \/ RecInClosed
    \/ RecCancel
    \/ RecRecvCount
    \/ RecSendCount
    \/ RecDumpOpen
    \/ RecDumpWrite
    \/ RecDumpFail
    \/ RecForward
    \/ RecForwardCancel
    \/ RepPollDefault
    \/ RepExit

Next == (Cancel \/ PipelineStep) /\ UNCHANGED <<cls, vol>>

Spec == Init /\ [][Next]_<<vars, cls, vol>>

\* the pipeline with one resolver (the number of resolvers changes the order
\* in which Results reach the Recorder, not what the Recorder and the Reporter
\* do with them) and with the Reporter's goroutine scheduled: a default case
\* that can be taken is taken, and a range loop whose channel is closed ends
FairInit == Init /\ threads = 1

FairSpec ==
    /\ FairInit
    /\ [][Next]_<<vars, cls, vol>>
    /\ WF_<<vars, cls, vol>>(RepPollDefault /\ UNCHANGED <<cls, vol>>)
    /\ WF_<<vars, cls, vol>>(RepExit /\ UNCHANGED <<cls, vol>>)

\* ---------------------------------------------------------- classification

\* how often one Result is classified (Mark classifies once; the further runs
\* apply runFilters to an already classified Result)
MaxRuns == 2

\* the largest number of request types configured (--request-types)
MaxRequests == 2

\* the request types a configuration is drawn from, in order
AllTypes == <<"A", "AAAA", "CNAME", "MX">>

\* the replies the name server gives to one request
ClsOutcomes == {"found", "other", "multi", "cname", "nxcname", "nxdomain",
                "servfail", "empty", "delegation", "delegated", "error"}

\* the names the --hide-cname patterns of the model match
HiddenCNAMEs == {<<"target", ".example.net">>}

\* the options the filters are built from: every combination of the flags,
\* a hide network holding 192.0.2.1 only, a show network holding 192.0.2.1 only
OptsSet ==
    [ShowNotFound : BOOLEAN, HideEmpty : BOOLEAN, HideDelegations : BOOLEAN,
     hideNetworks : {{}, {<<"192.0.2.1">>}},
     showNetworks : {{}, {<<"192.0.2.1">>}},
     hideCNAMEs : {{}, HiddenCNAMEs}]

\* Resolver.lookup for a list of request types, the name server answering the
\* i-th request with outcomes[i]
lookupWith(item, types, outcomes) ==
    LET name == Replace(template, item)
    IN [Hide |-> FALSE,
        Item |-> item,
        Hostname |-> cleanHostname(name),
        Requests |-> [i \in 1..Len(types) |->
                         sendRequest(name, types[i], outcomes[i])]]

\* one Result as the resolver built it, and one set of options
ClsInit ==
    /\ PipelineInit
    /\ mode = "range"
    /\ threads = 1
    /\ vol = NoVolume
    /\ \E o \in OptsSet, n \in 0..MaxRequests :
         \E outcomes \in [1..n -> ClsOutcomes] :
            LET r == lookupWith(Sprintf(1), SubSeq(AllTypes, 1, n), outcomes)
            IN cls = [opts |-> o, orig |-> r, result |-> r, runs |-> 0]

\* Mark: result = runFilters(filters, result)
Classify ==
    /\ cls.runs < MaxRuns
    /\ cls' = [cls EXCEPT
                 !.result = runFilters(setupResultFilters(cls.opts), cls.result),
                 !.runs = @ + 1]
    /\ UNCHANGED <<vars, vol>>

ClsNext == Classify

ClsSpec == ClsInit /\ [][ClsNext]_<<vars, cls, vol>>

\* ---------------------------------------------------------- value filters

\* the largest --skip, the largest --limit, the largest number of values of
\* the source
MaxSkip == 2
MaxLimit == 2
MaxSource == 10

\* producer.FilterSkip.Count: the count, lowered by the number skipped
FilterSkipCount(skip, c) == c - skip

\* producer.FilterLimit.Count: the count, capped at the limit
FilterLimitCount(max, c) == IF c > max THEN max ELSE c

\* producer.FilterSkip.Select lets a value pass once it has discarded skip values
FilterSkipSelect(skip, skipped) == skipped >= skip

\* producer.FilterLimit.Select lets a value pass while it has passed fewer than max
FilterLimitSelect(max, passed) == passed < max

\* the count channel of setupValueFilters as a bug would have it: the limit is
\* installed before the skip
setupValueFiltersCountLimitFirst(opts, c) ==
    LET limited == IF opts.Limit > 0 THEN FilterLimitCount(opts.Limit, c) ELSE c
    IN IF opts.Skip > 0 THEN FilterSkipCount(opts.Skip, limited) ELSE limited

\* setupValueFilters, the count channel: a count sent by the producer, as it
\* leaves the filters
setupValueFiltersCount(opts, c) ==
    LET skipped == IF opts.Skip > 0 THEN FilterSkipCount(opts.Skip, c) ELSE c
    IN IF opts.Limit > 0 THEN FilterLimitCount(opts.Limit, skipped) ELSE skipped

\* the value channel of setupValueFilters as a bug would have it: the limit
\* is installed before the skip
setupValueFiltersLimitFirst(opts, st, v) ==
    IF opts.Limit > 0 /\ ~FilterLimitSelect(opts.Limit, st.passed)
    THEN st
    ELSE LET limited == IF opts.Limit > 0 THEN [st EXCEPT !.passed = @ + 1] ELSE st
         IN IF opts.Skip > 0 /\ ~FilterSkipSelect(opts.Skip, st.skipped)
            THEN [limited EXCEPT !.skipped = @ + 1]
            ELSE [limited EXCEPT !.out = Append(@, v)]

\* setupValueFilters, the value channel: the value v sent by the producer goes
\* through the skip filter, if installed, then through the limit filter, if
\* installed, and is appended to out when both let it pass
setupValueFilters(opts, st, v) ==
    IF opts.Skip > 0 /\ ~FilterSkipSelect(opts.Skip, st.skipped)
    THEN [st EXCEPT !.skipped = @ + 1]
    ELSE IF opts.Limit > 0
         THEN IF FilterLimitSelect(opts.Limit, st.passed)
              THEN [st EXCEPT !.passed = @ + 1, !.out = Append(@, v)]
              ELSE st
         ELSE [st EXCEPT !.out = Append(@, v)]

\* a source of N values and the options --skip and --limit
VolInit ==
    /\ PipelineInit
    /\ mode = "range"
    /\ threads = 1
    /\ cls = NoCase
    /\ \E k \in 0..MaxSkip, m \in 0..MaxLimit, n \in 0..MaxSource :
          vol = [NoVolume EXCEPT !.opts = [Skip |-> k, Limit |-> m], !.N = n]

\* the producer sends its next value into the filters
VolValue ==
    /\ vol.fed < vol.N
    /\ vol' = [setupValueFilters(vol.opts, vol, Sprintf(vol.fed + 1))
                 EXCEPT !.fed = vol.fed + 1]
    /\ UNCHANGED <<vars, cls>>

\* the producer sends the count into the filters, before, between or after
\* the values
VolCount ==
    /\ vol.count = <<>>
    /\ vol' = [vol EXCEPT !.count = <<setupValueFiltersCount(vol.opts, vol.N)>>,
                          !.countAt = vol.fed]
    /\ UNCHANGED <<vars, cls>>

VolNext == VolValue \/ VolCount

VolSpec == VolInit /\ [][VolNext]_<<vars, cls, vol>>

\* ------------------------------------------------------------- properties

\* every goroutine of the pipeline has returned
AllStagesTerminated ==
    /\ prodPc = "done"
    /\ \A w \in Workers : wpc[w] = "done"
    /\ outClosed
    /\ markPc = "done"
    /\ recPc = "done"
    /\ repPc = "done"

\* the checkpoint file holds exactly the Recorder's current data
FinalCheckpointWritten == file = [state |-> "complete", data |-> data]

\* C1: Recorder deadlock freedom.  While the run is neither cancelled nor hit
\* by a checkpoint write failure, some goroutine of the pipeline can take a
\* step unless all of them have returned, whether or not the count has
\* arrived and whether or not the outbound count was ever received; and once
\* Run has returned it has forwarded every one of the NumValues Results,
\* closed its output channel and written the final checkpoint.
RecorderDeadlockFree ==
    (~cancelled /\ ~recErr) =>
        /\ (ENABLED PipelineStep) \/ AllStagesTerminated
        /\ recPc = "done" =>
              /\ Len(forwarded) = NumValues
              /\ forwarded = received
              /\ recOutClosed
              /\ FinalCheckpointWritten

\* C1 witness: an uncancelled run has ended although the count never arrived
\* at the Recorder
RecorderDeadlockFreeWitness ==
    /\ ~cancelled /\ ~recErr
    /\ recPc = "done" /\ repPc = "done"
    /\ countIn = <<>>
    /\ Len(forwarded) = NumValues

\* C2 as stated: once the count has arrived, every receive request on the
\* outbound count channel (the Reporter polls while the Recorder waits in
\* its select) is served.
CountYieldedOnEveryRequest ==
    (inCountNil /\ recPc = "select" /\ repPc = "poll") => ENABLED RecSendCount

\* C2 as amended: the outbound count channel yields at most one value over
\* the run, that value is exactly the inbound count, and nothing is yielded
\* or offered before the inbound count has arrived.
CountYieldedAtMostOnce ==
    /\ Len(countOut) <= 1
    /\ countOut # <<>> => (countIn # <<>> /\ countOut[1] = countIn[1])
    /\ countIn # <<>> => (countEmitted # <<>> /\ countIn[1] = countEmitted[1])
    /\ countIn = <<>> => (countOut = <<>> /\ ~ENABLED RecSendCount)

\* C2 witness: the count was yielded once, and a later receive request meets
\* the Recorder waiting in its select
CountYieldedAtMostOnceWitness ==
    /\ Len(countOut) = 1
    /\ countOut[1] = NumValues
    /\ recPc = "select"
    /\ repPc = "poll"

\* C3 as stated: in every state of the Recorder's loop exactly one of
\* "receive inbound count" (inCount not nil) and "offer cached count
\* outbound" (countCh not nil) is enabled.
ExactlyOneCountObligation ==
    recPc \in {"select", "dump", "dumpWrite", "forward"} => (inCountNil # countChNil)

\* the state part of C3 as amended
CountObligationsInv ==
    /\ ~(~inCountNil /\ ~countChNil)
    /\ Len(countIn) <= 1
    /\ inCountNil <=> (Len(countIn) = 1)
    /\ ~inCountNil => countOut = <<>>
    /\ (inCountNil /\ countChNil) => Len(countOut) = 1

\* C3 as amended: the two count obligations are never both enabled; the
\* inbound side is disabled at most once, when the count is received, and
\* is never enabled again; the outbound side is enabled by that receive and
\* disabled for good by the one delivery, after which both are disabled.
CountObligations ==
    /\ []CountObligationsInv
    /\ [][(inCountNil => inCountNil')
          /\ (~countChNil' => (~countChNil \/ ~inCountNil))]_vars

\* C3 witness: inside the loop, with the count delivered, both obligations
\* are disabled
CountObligationsWitness ==
    /\ recPc = "select"
    /\ inCountNil
    /\ countChNil
    /\ markPc = "send"

\* C4: in an uncancelled run in which the producer emitted the count, the
\* final checkpoint holds that count as TotalRequests.
FinalTotalIsCount ==
    (recPc = "done" /\ ~recErr /\ ~cancelled /\ countEmitted # <<>>) =>
        (file.state = "complete" /\ file.data.TotalRequests = countEmitted[1])

\* C5 as stated, for the runs without a write failure: when Run has returned,
\* the Results the Recorder sent are exactly the Results it received.
ForwardsAllReceived == (recPc = "done" /\ ~recErr) => forwarded = received

\* C5 as amended: the Results sent are always a prefix of the Results
\* received (same Results, same order, none twice), short of it by at most
\* the Result received last; the two are equal when Run returns after its
\* input was closed, without a cancellation observed and without a write
\* failure.
ForwardedIsPrefix ==
    /\ Len(forwarded) <= Len(received)
    /\ forwarded = SubSeq(received, 1, Len(forwarded))
    /\ Len(received) - Len(forwarded) <= 1
    /\ recPc \in {"dump", "dumpWrite", "forward"} =>
          (Len(received) = Len(forwarded) + 1 /\ recRes = received[Len(received)])
    /\ recPc = "select" => forwarded = received
    /\ (recPc = "done" /\ ~recErr /\ ~data.Cancelled) => forwarded = received

\* C5 witness: Run has returned having forwarded several Results, a hidden
\* one among them
ForwardedIsPrefixWitness ==
    /\ recPc = "done" /\ ~recErr /\ ~data.Cancelled
    /\ Len(forwarded) = NumValues
    /\ \E i \in 1..Len(forwarded) : forwarded[i].Hide

\* C6: when Run has returned without a write error the checkpoint file holds
\* the final data, with Cancelled set exactly if the context was cancelled
\* when the Recorder left its loop.
FinalCheckpointCancelled ==
    (recPc = "done" /\ ~recErr) =>
        (FinalCheckpointWritten /\ file.data.Cancelled = cancelAtExit)

\* C7, for the runs without a write failure: once the context is cancelled
\* no goroutine of the pipeline stays blocked: when none of them can take a
\* step, all of them have returned.
NoStageBlocksAfterCancel ==
    (cancelled /\ ~recErr /\ ~ENABLED PipelineStep) => AllStagesTerminated

\* C8: the resolvers' output channel is closed only after every resolver
\* has returned, so none holds a Result to send or can receive another value
\* once it is closed; closing happens once and no Result is sent afterwards.
OutputClosedAfterWorkersInv ==
    outClosed => \A w \in Workers : wpc[w] = "done" /\ wres[w] = NoResult

OutputClosedAfterWorkers ==
    /\ []OutputClosedAfterWorkersInv
    /\ [][outClosed => (outClosed' /\ emitted' = emitted /\ wpc' = wpc)]_vars

\* C8 witness: the channel is closed in a cancelled run of two resolvers in
\* which one resolver returned with its Result unsent
OutputClosedAfterWorkersWitness ==
    /\ outClosed
    /\ threads = 2
    /\ cancelled
    /\ \E v \in Values : consumed[v] = 1 /\ emitted[v] = 0

\* the number of resolvers holding a Result for value v
Holding(v) == Cardinality({w \in Workers : wpc[w] = "send" /\ wres[w].Item = v})

\* C9: every value is received by at most one resolver and no Result is
\* sent for a value that was not received; without cancellation every value
\* received is either held by exactly one resolver as a Result for that very
\* value or was sent exactly once, and once the pool has shut down every
\* value has produced exactly one Result.
ExactlyOneResultPerValue ==
    /\ \A v \in Values : consumed[v] <= 1 /\ emitted[v] <= consumed[v]
    /\ \A w \in Workers : wpc[w] = "send" <=> wres[w] # NoResult
    /\ ~cancelled =>
          /\ \A v \in Values : consumed[v] = emitted[v] + Holding(v)
          /\ outClosed => \A v \in Values : consumed[v] = 1 /\ emitted[v] = 1

\* C9 witness: without cancellation two resolvers hold a Result each at the
\* same time
ExactlyOneResultPerValueWitness ==
    /\ ~cancelled
    /\ threads = 2
    /\ wpc[1] = "send" /\ wpc[2] = "send"
    /\ wres[1].Item # wres[2].Item

\* C10: once a checkpoint has been written, the file always holds a complete
\* snapshot.
CheckpointNeverPartial == written >= 1 => file.state = "complete"

\* ------------------------------------------- properties of classification

\* some Result-tier filter built from the options rejects the result
ResultRejected(opts, r) ==
    \E k \in 1..Len(setupResultFilters(opts).Result) :
       ResultReject(setupResultFilters(opts).Result[k], r)

\* every Request of the result is marked Hide
AllRequestsHidden(r) == \A i \in 1..Len(r.Requests) : r.Requests[i].Hide

\* C11: the collapse rule.  After runFilters a Result all of whose Requests
\* are marked Hide is marked Hide itself; a Result no Result-tier filter
\* rejected and with at least one Request not marked Hide is not marked Hide.
CollapseRule ==
    cls.runs >= 1 =>
       /\ AllRequestsHidden(cls.result) => cls.result.Hide
       /\ (/\ ~ResultRejected(cls.opts, cls.orig)
           /\ ~AllRequestsHidden(cls.result)) => ~cls.result.Hide

\* a classified Result with two Requests, both hidden by the Request tier, that
\* is hidden by the collapse rule and not by a Result-tier filter
CollapseRuleWitness ==
    /\ cls.runs = 1
    /\ Len(cls.result.Requests) = 2
    /\ AllRequestsHidden(cls.result)
    /\ ~ResultRejected(cls.opts, cls.orig)
    /\ cls.opts.HideEmpty
    /\ cls.result.Hide

\* C12: after classification a Result is marked Hide exactly when some
\* Result-tier filter rejected it or every one of its Requests is marked Hide.
ResultHiddenIff ==
    cls.runs >= 1 =>
       (cls.result.Hide <=>
           (ResultRejected(cls.opts, cls.orig) \/ AllRequestsHidden(cls.result)))

\* a classified Result a Result-tier filter rejected: it is marked Hide while
\* none of its two Requests is
ResultHiddenIffWitness ==
    /\ cls.runs = 1
    /\ Len(cls.result.Requests) = 2
    /\ ResultRejected(cls.opts, cls.orig)
    /\ \A i \in 1..2 : ~cls.result.Requests[i].Hide
    /\ cls.result.Hide

\* a Request with every Hide flag of its own and of its Responses cleared
Unmarked(request) ==
    [request EXCEPT
       !.Hide = FALSE,
       !.Responses = [j \in 1..Len(request.Responses) |->
                         [request.Responses[j] EXCEPT !.Hide = FALSE]]]

\* b is a with Hide flags added: no flag of a is cleared in b, and Item,
\* Hostname, the Requests and Responses, their number, order and every other
\* field are the same
HideAdded(a, b) ==
    /\ b.Item = a.Item
    /\ b.Hostname = a.Hostname
    /\ a.Hide => b.Hide
    /\ Len(b.Requests) = Len(a.Requests)
    /\ \A i \in 1..Len(a.Requests) :
          /\ Unmarked(b.Requests[i]) = Unmarked(a.Requests[i])
          /\ a.Requests[i].Hide => b.Requests[i].Hide
          /\ \A j \in 1..Len(a.Requests[i].Responses) :
                a.Requests[i].Responses[j].Hide => b.Requests[i].Responses[j].Hide

\* C13: classification hides without discarding.  Every run of runFilters, on
\* an unclassified Result and on an already classified one, only adds Hide
\* flags: none is cleared, and Item, Hostname, the number and order of the
\* Requests and Responses and all their other fields stay as they were.
HideWithoutDiscard == [][HideAdded(cls.result, cls.result')]_cls

\* a Result classified twice that carries a hidden Request and, in another
\* Request, a hidden Response, and is itself not hidden
HideWithoutDiscardWitness ==
    /\ cls.runs = 2
    /\ ~cls.result.Hide
    /\ \E i \in 1..Len(cls.result.Requests) : cls.result.Requests[i].Hide
    /\ \E i \in 1..Len(cls.result.Requests) :
          \E j \in 1..Len(cls.result.Requests[i].Responses) :
             cls.result.Requests[i].Responses[j].Hide

\* the Hide flags of a Result, of its Requests and of their Responses
HideFlags(r) ==
    [Hide |-> r.Hide,
     Requests |-> [i \in 1..Len(r.Requests) |->
                     [Hide |-> r.Requests[i].Hide,
                      Responses |-> [j \in 1..Len(r.Requests[i].Responses) |->
                                        r.Requests[i].Responses[j].Hide]]]]

\* C14: classification is idempotent.  Running runFilters with the same
\* filters on an already classified Result yields the same Hide flags on the
\* Result, on every Request and on every Response.
ClassificationIdempotent ==
    cls.runs >= 1 =>
       HideFlags(runFilters(setupResultFilters(cls.opts), cls.result))
          = HideFlags(cls.result)

\* a Result classified twice with the same filters whose only Response a
\* Response filter hid, and which carries the flags of the first run
ClassificationIdempotentWitness ==
    /\ cls.runs = 2
    /\ HideFlags(cls.result) # HideFlags(cls.orig)
    /\ HideFlags(cls.result)
          = HideFlags(runFilters(setupResultFilters(cls.opts), cls.orig))
    /\ Len(cls.result.Requests) = 1
    /\ Len(cls.result.Requests[1].Responses) = 1
    /\ cls.result.Requests[1].Responses[1].Hide

\* some Request of the result has a name server or an SOA record
HasAuthority(r) ==
    \E i \in 1..Len(r.Requests) :
       r.Requests[i].Nameserver # <<>> \/ r.Requests[i].SOA # <<>>

\* C15: for every Result, Delegation implies Empty, and Delegation holds
\* exactly when the Result is Empty and at least one of its Requests has a
\* non-empty Nameserver or SOA list.
DelegationImpliesEmpty ==
    /\ Delegation(cls.result) => ResultEmpty(cls.result)
    /\ Delegation(cls.result) <=>
          (ResultEmpty(cls.result) /\ HasAuthority(cls.result))

\* a Result that is Empty but no Delegation: with --hide-delegations alone it
\* went through classification without being hidden
DelegationImpliesEmptyWitness ==
    /\ cls.runs = 1
    /\ cls.opts.HideDelegations
    /\ ~cls.opts.HideEmpty
    /\ Len(cls.result.Requests) = 2
    /\ ResultEmpty(cls.result)
    /\ ~Delegation(cls.result)
    /\ ~cls.result.Hide

\* the Result has one Request only, answered with NXDOMAIN
OnlyRequestNotFound(r) ==
    /\ Len(r.Requests) = 1
    /\ r.Requests[1].Status = "NXDOMAIN"

\* C16: with ShowNotFound = false every Request answered with NXDOMAIN is
\* marked Hide by classification; when it is the only Request of its Result
\* the Result is marked Hide, and the Recorder counts it in HiddenResults, not
\* in ShownResults, and does not append it to the results of the checkpoint.
NotFoundHidden ==
    (cls.runs >= 1 /\ ~cls.opts.ShowNotFound) =>
       /\ \A i \in 1..Len(cls.result.Requests) :
             cls.result.Requests[i].Status = "NXDOMAIN" => cls.result.Requests[i].Hide
       /\ OnlyRequestNotFound(cls.result) =>
             /\ cls.result.Hide
             /\ RecordResult(NewData, cls.result)
                   = [NewData EXCEPT !.SentRequests = 1, !.HiddenResults = 1]

\* a classified Result whose only Request was answered with NXDOMAIN, under
\* options that hide nothing but not-found Requests
NotFoundHiddenWitness ==
    /\ cls.runs = 1
    /\ cls.opts = DefaultOpts
    /\ OnlyRequestNotFound(cls.result)
    /\ cls.result.Requests[1].Hide
    /\ RecordResult(NewData, cls.result).HiddenResults = 1

\* the Response is an address record whose address lies in a hide network
InHideNetwork(opts, response) ==
    /\ response.Type \in {"A", "AAAA"}
    /\ response.Data \in opts.hideNetworks

\* C17: with a hide network configured, classification marks every A/AAAA
\* Response whose address lies in the network; when it is the only Response
\* of its Request the Request is not marked, the Result is not marked, and
\* the Result is not Empty.
HideNetworkHidesResponse ==
    (cls.runs >= 1 /\ cls.opts.hideNetworks # {}) =>
       \A i \in 1..Len(cls.result.Requests) :
          \A j \in 1..Len(cls.result.Requests[i].Responses) :
             InHideNetwork(cls.opts, cls.result.Requests[i].Responses[j]) =>
                /\ cls.result.Requests[i].Responses[j].Hide
                /\ Len(cls.result.Requests[i].Responses) = 1 =>
                      /\ ~cls.result.Requests[i].Hide
                      /\ ~cls.result.Hide
                      /\ ~ResultEmpty(cls.result)

\* ------------------------------------------- properties of the value filters

\* the number of values Skip(K) then Limit(M) let pass of n values, n > K,
\* Limit = 0 meaning no limit
Expected(opts, n) ==
    IF opts.Limit = 0 \/ n - opts.Skip < opts.Limit
    THEN n - opts.Skip
    ELSE opts.Limit

\* C18: for Skip = K, Limit = M and a source of N > K values the value
\* filters pass on exactly min(N - K, M) values (N - K when M = 0), never more
\* on the way, and the count they forward is that number, whether the
\* producer's count arrives before, between or after the values.
VolumeCount ==
    vol.N > vol.opts.Skip =>
       /\ Len(vol.out) <= Expected(vol.opts, vol.N)
       /\ vol.fed = vol.N => Len(vol.out) = Expected(vol.opts, vol.N)
       /\ vol.count # <<>> => vol.count = <<Expected(vol.opts, vol.N)>>

\* skip and limit both set, more values than both need: the count arrived
\* after the last value the limit lets pass, and the source is exhausted
VolumeCountWitness ==
    /\ vol.opts.Skip > 0
    /\ vol.opts.Limit > 0
    /\ vol.N > vol.opts.Skip + vol.opts.Limit
    /\ vol.fed = vol.N
    /\ vol.count = <<vol.opts.Limit>>
    /\ vol.countAt > vol.opts.Skip + vol.opts.Limit
    /\ vol.countAt < vol.N
    /\ Len(vol.out) = vol.opts.Limit

\* C19: the values passed on by Skip(K) then Limit(M) are the (K+1)-th to the
\* (K+M)-th value of the source (to the last one when M = 0 or the source is
\* shorter), in source order: at any time a prefix of them, all of them once
\* the source is exhausted.
VolumeValues ==
    vol.N > vol.opts.Skip =>
       /\ Len(vol.out) <= Expected(vol.opts, vol.N)
       /\ \A i \in 1..Len(vol.out) : vol.out[i] = Sprintf(vol.opts.Skip + i)
       /\ vol.fed = vol.N =>
             vol.out = [i \in 1..Expected(vol.opts, vol.N) |-> Sprintf(vol.opts.Skip + i)]

\* Skip = 2 and Limit = 2 over the range 1..10: the values 3 and 4 are passed
\* on and the forwarded count is 2
VolumeValuesWitness ==
    /\ vol.opts = [Skip |-> 2, Limit |-> 2]
    /\ vol.N = 10
    /\ vol.fed = 10
    /\ vol.out = <<Sprintf(3), Sprintf(4)>>
    /\ vol.count = <<2>>

\* ----------------------------------------------- properties of the scenario

\* scenario A: a range producer, one resolver, a run neither cancelled nor hit
\* by a checkpoint write failure
ScenarioA ==
    /\ mode = "range"
    /\ threads = 1
    /\ ~cancelled
    /\ ~recErr

\* C20 as stated: in scenario A exactly NumValues Results reach the Reporter,
\* in producer order, the i-th with Item = "i" and with the Hostname
\* "host-i.example.org.", the template with the placeholder substituted.
ScenarioAHostnameIsTemplate ==
    ScenarioA =>
       /\ Len(forwarded) <= NumValues
       /\ AllStagesTerminated => Len(forwarded) = NumValues
       /\ \A i \in 1..Len(forwarded) :
             /\ forwarded[i].Item = Sprintf(i)
             /\ forwarded[i].Hostname
                   = <<"host-">> \o Sprintf(i) \o <<".example.org", ".">>

\* C20, amended: in scenario A exactly NumValues Results reach the Reporter,
\* in producer order, the i-th with Item = "i" and with the Hostname
\* "host-i.example.org": the template with the placeholder substituted and
\* the trailing dot removed.
ScenarioAHostnameIsClean ==
    ScenarioA =>
       /\ Len(forwarded) <= NumValues
       /\ AllStagesTerminated => Len(forwarded) = NumValues
       /\ \A i \in 1..Len(forwarded) :
             /\ forwarded[i].Item = Sprintf(i)
             /\ forwarded[i].Hostname
                   = <<"host-">> \o Sprintf(i) \o <<".example.org">>

\* scenario A has run to its end and the Reporter has received the Result of
\* the last value of the range
ScenarioAHostnameIsCleanWitness ==
    /\ ScenarioA
    /\ AllStagesTerminated
    /\ Len(forwarded) = NumValues
    /\ forwarded[NumValues].Item = Sprintf(NumValues)
    /\ forwarded[NumValues].Hostname
          = <<"host-">> \o Sprintf(NumValues) \o <<".example.org">>

\* ------------------------------------------------ properties of the errors

\* C21: a checkpoint write failure is fatal to the Recorder.  Once dump has
\* returned an error, Run has returned it and has closed its output channel,
\* the Reporter is never blocked (it can finish its Result or leave its
\* loop), and from then on no Result is received, counted or forwarded.
WriteFailureFatal ==
    /\ [](recErr =>
            /\ recPc = "done"
            /\ recOutClosed
            /\ repPc = "done" \/ ENABLED (RepPollDefault \/ RepExit))
    /\ [][recErr => /\ forwarded' = forwarded
                    /\ received' = received
                    /\ data' = data]_vars

\* a periodic write failed in a run not cancelled: the Result received last
\* was not forwarded, and the Reporter has terminated
WriteFailureFatalWitness ==
    /\ recErr
    /\ ~cancelled
    /\ repPc = "done"
    /\ Len(received) = Len(forwarded) + 1
    /\ file.state = "absent"

\* the Result holds one Request per configured type; where the exchange
\* failed the Request holds the error and nothing else, elsewhere it holds the
\* status of the reply
FailedExchangeRecorded(r) ==
    /\ Len(r.Requests) = Len(requestTypes)
    /\ \A i \in 1..Len(r.Requests) :
          /\ r.Requests[i].Type = requestTypes[i]
          /\ IF Zone(r.Item, requestTypes[i]) = "error"
             THEN /\ r.Requests[i].Error
                  /\ r.Requests[i].Status = ""
                  /\ ~r.Requests[i].Failure
                  /\ r.Requests[i].Responses = <<>>
             ELSE /\ ~r.Requests[i].Error
                  /\ r.Requests[i].Status # ""

\* the number of failed exchanges held by the Results of list
RECURSIVE ErrorsIn(_)
ErrorsIn(list) ==
    IF list = <<>> THEN 0
    ELSE Cardinality({i \in 1..Len(Head(list).Requests) : Head(list).Requests[i].Error})
         + ErrorsIn(Tail(list))

\* the Results the Reporter has counted
Processed ==
    IF repPc = "poll" THEN SubSeq(forwarded, 1, Len(forwarded) - 1) ELSE forwarded

\* C22: a failed exchange is data.  Every Result a resolver emits holds one
\* Request per configured type, the failed ones holding the error and the
\* others the reply; the Recorder counts each Result it receives, the
\* Reporter's error counter is the number of failed exchanges in the Results
\* it has counted, and a run neither cancelled nor hit by a write failure
\* ends with a Result forwarded for every value.
ErrorIsData ==
    /\ \A w \in Workers : wpc[w] = "send" => FailedExchangeRecorded(wres[w])
    /\ markPc = "send" => FailedExchangeRecorded(markRes)
    /\ \A i \in 1..Len(received) : FailedExchangeRecorded(received[i])
    /\ data.SentRequests = Len(received)
    /\ stats.Errors = ErrorsIn(Processed)
    /\ (AllStagesTerminated /\ ~cancelled /\ ~recErr) =>
          \A v \in Values : \E i \in 1..Len(forwarded) : forwarded[i].Item = v

\* one resolver, a finished run: the first Result holds a failed exchange for
\* the first type and a reply for the second, the Result of the next value
\* followed it, and the Reporter counted the error
ErrorIsDataWitness ==
    /\ threads = 1
    /\ AllStagesTerminated
    /\ ~cancelled
    /\ ~recErr
    /\ Len(forwarded) = NumValues
    /\ forwarded[1].Requests[1].Error
    /\ forwarded[1].Requests[2].Status = "NOERROR"
    /\ forwarded[2].Item = Sprintf(2)
    /\ stats.Errors >= 1
    /\ stats.Results = NumValues

\* ------------------------------------------------- properties of the tiers

\* some Request filter built from the options rejects the request
RequestRejected(opts, request) ==
    \E k \in 1..Len(setupResultFilters(opts).Request) :
       RequestReject(setupResultFilters(opts).Request[k], request)

\* some Response filter built from the options rejects the response
ResponseRejected(opts, response) ==
    \E k \in 1..Len(setupResultFilters(opts).Response) :
       ResponseReject(setupResultFilters(opts).Response[k], response)

\* C23: the Response filters are applied to every Response of every Request
\* the Request tier did not hide, whatever the options, also when no Request
\* filter is configured: after classification a Response that a configured
\* Response filter rejects is marked Hide.
ResponseFiltersAlwaysApplied ==
    cls.runs >= 1 =>
       \A i \in 1..Len(cls.result.Requests) :
          ~cls.result.Requests[i].Hide =>
             \A j \in 1..Len(cls.result.Requests[i].Responses) :
                ResponseRejected(cls.opts, cls.result.Requests[i].Responses[j])
                   => cls.result.Requests[i].Responses[j].Hide

\* C24: in one classification run a Request some Request filter rejects is
\* marked Hide and none of its Responses is marked, no Request marked Hide
\* has a marked Response, and a Request no Request filter rejects goes on to
\* the Response tier, which marks exactly the Responses its filters reject.
RequestTierSkipsResponses ==
    (cls.runs = 1 /\ ~ResultRejected(cls.opts, cls.orig)) =>
       \A i \in 1..Len(cls.result.Requests) :
          /\ cls.result.Requests[i].Hide <=> RequestRejected(cls.opts, cls.orig.Requests[i])
          /\ cls.result.Requests[i].Hide =>
                \A j \in 1..Len(cls.result.Requests[i].Responses) :
                   ~cls.result.Requests[i].Responses[j].Hide
          /\ ~RequestRejected(cls.opts, cls.orig.Requests[i]) =>
                \A j \in 1..Len(cls.result.Requests[i].Responses) :
                   cls.result.Requests[i].Responses[j].Hide
                      <=> ResponseRejected(cls.opts, cls.result.Requests[i].Responses[j])

\* C25: when a Result filter rejects a Result, runFilters marks the Result
\* and nothing else: every Hide flag of its Requests and Responses, and every
\* other field, is as it was.
ResultTierShortCircuits ==
    (cls.runs >= 1 /\ ResultRejected(cls.opts, cls.orig)) =>
       cls.result = [cls.orig EXCEPT !.Hide = TRUE]

\* --hide-delegations rejected a Delegation with two Requests while the
\* not-found filter and a Response filter were configured as well
ResultTierShortCircuitsWitness ==
    /\ cls.runs = 1
    /\ cls.opts.HideDelegations
    /\ ~cls.opts.HideEmpty
    /\ ~cls.opts.ShowNotFound
    /\ cls.opts.hideNetworks # {}
    /\ Delegation(cls.orig)
    /\ Len(cls.orig.Requests) = 2
    /\ ~cls.orig.Hide
    /\ cls.result = [cls.orig EXCEPT !.Hide = TRUE]

\* ------------------------------------------------ properties of the display

SomeShownRequestIsBlank(r) ==
    \E i \in 1..Len(r.Requests) :
       /\ ~r.Requests[i].Hide
       /\ \A j \in 1..Len(r.Requests[i].Responses) : r.Requests[i].Responses[j].Hide

ProjectionEmpty(r) == DOMAIN NewResult(r).Responses = {}

\* C27: for a classified Result with Hide = false the Recorder increments
\* ShownResults, and appends the projection of the Result to the results of
\* the checkpoint only if the projection is not empty: a shown Result with an
\* empty projection is counted and not listed.
ShownListedOnlyIfNonEmpty ==
    (cls.runs >= 1 /\ ~cls.result.Hide) =>
       /\ RecordResult(NewData, cls.result).ShownResults = 1
       /\ RecordResult(NewData, cls.result).Results
             = IF ProjectionEmpty(cls.result) THEN <<>>
               ELSE <<NewResult(cls.result)>>

\* C28 as stated: the Recorder forwards a Result before it counts it, so in
\* every reachable state every Result counted in SentRequests has been sent
\* on the Recorder's output channel.
CountedResultsWereForwarded == data.SentRequests <= Len(forwarded)

\* C28, amended: the Recorder counts a Result when it receives it and
\* forwards it afterwards.  SentRequests is the number of Results received,
\* ShownResults and HiddenResults add up to it, every forwarded Result has
\* been counted, and at most the one Result counted last has not been
\* forwarded: while Run has it in hand, and for good when Run left its loop
\* on cancellation or returned a write error.
ForwardedResultsWereCounted ==
    /\ data.SentRequests = Len(received)
    /\ data.ShownResults + data.HiddenResults = data.SentRequests
    /\ Len(forwarded) <= data.SentRequests
    /\ data.SentRequests <= Len(forwarded) + 1
    /\ data.SentRequests = Len(forwarded) + 1 =>
          \/ recPc \in {"dump", "dumpWrite", "forward"}
          \/ cancelAtExit
          \/ recErr

\* a cancelled run has ended: the final checkpoint counts a Result the
\* Recorder never forwarded
ForwardedResultsWereCountedWitness ==
    /\ recPc = "done"
    /\ ~recErr
    /\ cancelAtExit
    /\ file.state = "complete"
    /\ file.data.SentRequests = Len(forwarded) + 1
    /\ repPc = "done"

\* ------------------------------------------------ properties of the workers

\* r without the Hide flags Mark may have set
Unclassified(r) ==
    [r EXCEPT !.Hide = FALSE,
              !.Requests = [i \in 1..Len(r.Requests) |-> Unmarked(r.Requests[i])]]

\* r holds one Request per configured type, in the configured order, each
\* the reply the name server gives for the host of r.Item and that type
OneRequestPerType(r) ==
    /\ Len(r.Requests) = Len(requestTypes)
    /\ \A i \in 1..Len(r.Requests) :
          /\ r.Requests[i].Type = requestTypes[i]
          /\ Unmarked(r.Requests[i])
                = sendRequest(Replace(template, r.Item), requestTypes[i],
                              Zone(r.Item, requestTypes[i]))

\* C29: every Result a resolver emits holds exactly one Request per
\* configured type, in the configured order, all of them for the Value the
\* Result is for, however many resolvers run and whether exchanges fail.
RequestsInConfiguredOrder ==
    /\ \A w \in Workers : wpc[w] = "send" => OneRequestPerType(wres[w])
    /\ markPc = "send" => OneRequestPerType(markRes)
    /\ \A i \in 1..Len(received) : OneRequestPerType(received[i])

\* two resolvers hold a Result each for sending, for different values, one
\* of them with a failed exchange
RequestsInConfiguredOrderWitness ==
    /\ threads = 2
    /\ wpc[1] = "send"
    /\ wpc[2] = "send"
    /\ wres[1].Item # wres[2].Item
    /\ wres[1].Requests[1].Error
    /\ wres[2].Requests[1].NotFound

\* C30 as stated: a resolver ends only when the value channel is closed and
\* drained; cancellation alone never makes it leave its loop.
WorkerEndsOnlyOnClose ==
    [][\A w \in Workers :
          (wpc[w] # "done" /\ wpc'[w] = "done") => (vchClosed /\ vch = <<>>)]_vars

\* C30, amended: a resolver ends when it finds the value channel closed and
\* drained, or when it observes the cancellation while it is sending a
\* Result; while it waits for a value, cancellation does not end it.
WorkerEndsOnCloseOrCancelledSend ==
    [][\A w \in Workers :
          (wpc[w] # "done" /\ wpc'[w] = "done") =>
             \/ wpc[w] = "recv" /\ vchClosed /\ vch = <<>>
             \/ wpc[w] = "send" /\ cancelled]_vars

\* a resolver has returned on cancellation while the value channel is still
\* open, and another one still waits for a value
WorkerEndsOnCloseOrCancelledSendWitness ==
    /\ cancelled
    /\ ~vchClosed
    /\ threads = 2
    /\ \E w \in Workers : wpc[w] = "done"
    /\ \E w \in Workers : wpc[w] = "recv"

\* ---------------------------------------------------------------------
\* C31: the Reporter's statistics come from non-hidden data only: the map of
\* unique values of each type holds exactly the Data of the responses of
\* that type that are not hidden and belong to a request that is not hidden,
\* and a hidden request adds nothing to the error counter.  Stated for the
\* statistics Display computes from one classified Result.

\* the Data of the responses of type t that are shown: neither the response
\* nor its request is hidden
ShownResponseData(result, t) ==
    UNION {{result.Requests[i].Responses[j].Data :
               j \in {k \in 1..Len(result.Requests[i].Responses) :
                         /\ result.Requests[i].Responses[k].Type = t
                         /\ ~result.Requests[i].Responses[k].Hide}} :
           i \in {k \in 1..Len(result.Requests) : ~result.Requests[k].Hide}}

StatsFromShownDataOnly ==
    cls.runs >= 1 =>
        LET st == ReporterProcess(NewStats, cls.result)
        IN /\ st.A = ShownResponseData(cls.result, "A")
           /\ st.AAAA = ShownResponseData(cls.result, "AAAA")
           /\ st.MX = ShownResponseData(cls.result, "MX")
           /\ st.CNAME = ShownResponseData(cls.result, "CNAME")
           /\ st.PTR = ShownResponseData(cls.result, "PTR")
           /\ st.Errors = Cardinality({i \in 1..Len(cls.result.Requests) :
                                          /\ cls.result.Requests[i].Error
                                          /\ ~cls.result.Requests[i].Hide})

\* ---------------------------------------------------------------------
\* C32: a Request whose exchange failed with a transport error (Error set)
\* is never Empty, and a Result holding such a Request is never Empty and
\* never a Delegation.  Stated for the Result Mark hands on.
FailedExchangeNeverEmpty ==
    cls.runs >= 1 =>
       \A i \in 1..Len(cls.result.Requests) :
          cls.result.Requests[i].Error =>
             /\ ~RequestEmpty(cls.result.Requests[i])
             /\ ~ResultEmpty(cls.result)
             /\ ~Delegation(cls.result)

\* ---------------------------------------------------------------------
\* C33: Nameservers(Result) is the sorted, duplicate-free union of the Data
\* of all Nameserver and SOA records over all Requests of the Result: every
\* such Data value appears exactly once, no other value appears, and the
\* list is in ascending order.

\* the Data of the NS and SOA records of all requests of r
ServerData(r) ==
    UNION {{r.Requests[i].Nameserver[j].Data : j \in 1..Len(r.Requests[i].Nameserver)}
           \cup {r.Requests[i].SOA[j].Data : j \in 1..Len(r.Requests[i].SOA)} :
           i \in 1..Len(r.Requests)}

NameserversSortedUnion ==
    cls.runs >= 1 =>
       LET ns == Nameservers(cls.result)
       IN /\ {ns[k] : k \in 1..Len(ns)} = ServerData(cls.result)
          /\ \A k, l \in 1..Len(ns) : k < l => ns[k] # ns[l]
          /\ \A k, l \in 1..Len(ns) : k < l => StringLess(ns[k], ns[l])

\* a delegation whose servers arrive out of order and more than once, two
\* of them left in the list, which printResult prints in order
NameserversSortedUnionWitness ==
    /\ cls.runs >= 1
    /\ Delegation(cls.result)
    /\ Len(Servers(cls.result, 1)) >= 4
    /\ Servers(cls.result, 1)[1] = <<"ns2", ".example.org">>
    /\ Nameservers(cls.result) = <<<<"ns1", ".example.org">>, <<"ns2", ".example.org">>>>
    /\ printResult(cls.result)[1].Data =
          <<"potential delegation, servers: ", "ns1", ".example.org", ", ", "ns2", ".example.org">>

\* ---------------------------------------------------------------------
\* C34: in every checkpoint the Recorder writes, periodic or final,
\* SentRequests = ShownResults + HiddenResults, and the three counters and
\* the length of the results list never decrease from one written checkpoint
\* to the next.  Every write puts the current data into the file, the
\* checkpoint in the file is never ahead of the data, and the data never
\* goes back, so each checkpoint is at least the one it replaces.

\* the counters and the results list of a are at most those of b
NotAhead(a, b) ==
    /\ a.SentRequests <= b.SentRequests
    /\ a.ShownResults <= b.ShownResults
    /\ a.HiddenResults <= b.HiddenResults
    /\ Len(a.Results) <= Len(b.Results)

CheckpointsBalancedAndMonotone ==
    /\ [](file.state = "complete" =>
            /\ file.data.SentRequests = file.data.ShownResults + file.data.HiddenResults
            /\ NotAhead(file.data, data))
    /\ [][/\ NotAhead(data, data')
          /\ written' # written => file'.state = "complete" /\ file'.data = data']_vars

\* a second checkpoint has been written, a final one, after a periodic one
\* that was behind it; it counts a shown and a hidden Result
CheckpointsBalancedAndMonotoneWitness ==
    /\ written >= 2
    /\ recPc = "done"
    /\ file.state = "complete"
    /\ file.data.SentRequests = 2
    /\ file.data.ShownResults = 1
    /\ file.data.HiddenResults = 1
    /\ Len(file.data.Results) = 1

\* ---------------------------------------------------------------------
\* C35: over one run Recorder.Run receives from its inbound count channel at
\* most once and sends on its outbound count channel at most once; the value
\* it sends is exactly the value it received, and it sends nothing if no
\* count was received.  After the one receive the inbound case is disabled
\* (inCount is nil), after the one send the outbound case is (countCh is
\* nil), and the cached count is the one received.
CountReceivedAndSentAtMostOnce ==
    /\ Len(countIn) <= 1
    /\ Len(countOut) <= 1
    /\ countIn # <<>> => (inCountNil /\ data.TotalRequests = countIn[1])
    /\ countOut # <<>> => (countChNil /\ countIn # <<>> /\ countOut = countIn)
    /\ countIn = <<>> => (countOut = <<>> /\ countChNil)

\* Run has returned after receiving the count and sending it on
CountReceivedAndSentAtMostOnceWitness ==
    /\ recPc = "done"
    /\ countIn = <<NumValues>>
    /\ countOut = <<NumValues>>
    /\ Len(received) = NumValues

\* ---------------------------------------------------------------------
\* C36: on every exit path of Recorder.Run (input closed, cancellation seen
\* in either select, checkpoint write error) the Recorder's output channel
\* is closed exactly once and nothing is sent on it afterwards, so
\* Reporter.Display, which ends only when its input channel is closed,
\* always terminates once the Recorder has returned.
OutputClosedOnEveryExit ==
    /\ [](recOutClosed <=> recPc = "done")
    /\ [](repPc = "done" => recOutClosed)
    /\ [][recOutClosed => (recOutClosed' /\ forwarded' = forwarded)]_vars
    /\ (recPc = "done") ~> (repPc = "done")

\* Run returned from its second select on cancellation, the Result it held
\* not sent, and the Reporter has ended
OutputClosedOnEveryExitWitness ==
    /\ recPc = "done"
    /\ ~recErr
    /\ cancelAtExit
    /\ recRes # NoResult
    /\ Len(received) = Len(forwarded) + 1
    /\ repPc = "done"

\* ---------------------------------------------------------------------
\* the number of Results the classification stage emitted (Mark hands each
\* to the Recorder), and the number of those not hidden
Classified == Len(received)
ClassifiedShown == Cardinality({i \in 1..Len(received) : ~received[i].Hide})

\* the Reporter's counters, the Recorder's data and the checkpoint file agree
\* with each other and with what the classification stage emitted
CountersAgree ==
    /\ file = [state |-> "complete", data |-> data]
    /\ stats.Results = data.SentRequests
    /\ data.SentRequests = Classified
    /\ stats.ShownResults = data.ShownResults
    /\ data.ShownResults = ClassifiedShown

\* C37 as stated: at the end of an uncancelled run (Display has returned)
\* the Reporter's counters agree with the final checkpoint: Results =
\* SentRequests = number of Results emitted by the classification stage, and
\* ShownResults on both sides = number of those with Hide = false.
ReporterAgreesWithCheckpoint ==
    (repPc = "done" /\ ~cancelled) => CountersAgree

\* C37, amended: the same at the end of an uncancelled run in which no
\* checkpoint write failed; every value of the source was counted.
ReporterAgreesWithFinalCheckpoint ==
    (repPc = "done" /\ ~cancelled /\ ~recErr) =>
        (CountersAgree /\ stats.Results = NumValues)

\* an uncancelled run without a write failure has ended, with a periodic
\* checkpoint before the final one, a Result shown and a Result hidden
ReporterAgreesWithFinalCheckpointWitness ==
    /\ repPc = "done"
    /\ ~cancelled
    /\ ~recErr
    /\ written >= 2
    /\ stats.Results = 2
    /\ stats.ShownResults = 1
    /\ file.data.HiddenResults = 1

\* ---------------------------------------------------------------------
\* C38: the Reporter never blocks on the count channel: it polls it without
\* blocking once per received Result, so in every reachable state its
\* best-known total is either 0 (nothing obtained yet) or exactly the count
\* offered upstream, and the absence of a count never prevents it from
\* processing the next Result.
ReporterNeverWaitsForCount ==
    /\ repPc = "poll" => ENABLED RepPollDefault
    /\ (repPc = "poll") <=> (repRes # NoResult)
    /\ stats.Results + (IF repPc = "poll" THEN 1 ELSE 0) = Len(forwarded)
    /\ stats.Count = 0 \/ (countEmitted # <<>> /\ stats.Count = countEmitted[1])
    /\ stats.Count # 0 <=> countOut # <<>>

\* the source is a file, whose count is known only after its last line;
\* the Reporter has processed every Result of an uncancelled run and ended
\* without ever obtaining a count, its total still 0
ReporterNeverWaitsForCountWitness ==
    /\ mode = "source"
    /\ ~cancelled
    /\ countOut = <<>>
    /\ repPc = "done"
    /\ stats.Results = NumValues
    /\ stats.Count = 0

\* ---------------------------------------------------------------------
\* C39: for every Request built by sendRequest, NotFound implies Failure and
\* Failure implies not Empty(Request); so a Result containing an NXDOMAIN
\* Request is never Empty and never a Delegation, and the hide-empty and
\* hide-delegations Result filters never match it, before or after
\* classification.
NotFoundNeverEmpty ==
    \A r \in {cls.orig, cls.result} :
       \A i \in 1..Len(r.Requests) :
          /\ r.Requests[i].NotFound => r.Requests[i].Failure
          /\ r.Requests[i].Failure => ~RequestEmpty(r.Requests[i])
          /\ r.Requests[i].NotFound =>
                /\ ~ResultEmpty(r)
                /\ ~Delegation(r)
                /\ ~ResultReject(FilterEmptyResults, r)
                /\ ~ResultReject(FilterDelegations, r)
                /\ ~ResultRejected(cls.opts, r)

\* both Result filters are configured and not-found Requests are shown; the
\* Result holds an NXDOMAIN Request without Responses next to a Request
\* whose reply is a delegation, and it is not hidden
NotFoundNeverEmptyWitness ==
    /\ cls.runs >= 1
    /\ cls.opts.HideEmpty
    /\ cls.opts.HideDelegations
    /\ cls.opts.ShowNotFound
    /\ Len(cls.result.Requests) = 2
    /\ cls.result.Requests[1].NotFound
    /\ cls.result.Requests[1].Responses = <<>>
    /\ Len(cls.result.Requests[2].Nameserver) > 0
    /\ RequestEmpty(cls.result.Requests[2])
    /\ ~cls.result.Hide

====
